---- MODULE Spec2Model ----
(***************************************************************************)
(* Model of hh_auto_apply.py: the run orchestrator (HHAutoApply.run), the  *)
(* listing processor (_apply_to_vacancy), the link enumeration             *)
(* (_get_vacancy_links), the search URL builder (_build_search_url) and    *)
(* the ledger of applied vacancies (applied_vacancies.txt).                *)
(*                                                                         *)
(* Strings are sequences of tokens.  The separators the code splits on     *)
(* ("/", "?", "&", "=", " ") are tokens of their own, so that split,       *)
(* startswith and substring tests are computed as the code computes them.  *)
(***************************************************************************)
EXTENDS Integers, Sequences, FiniteSets, TLC

\* ------------------------------------------------------------------ bounds

\* largest max_applications_per_day the configuration is drawn from
MaxQuota == 2

\* --------------------------------------------------------- string helpers

Last(s) == s[Len(s)]

StartsWith(s, p) == Len(s) >= Len(p) /\ SubSeq(s, 1, Len(p)) = p

\* python: sub in s
Contains(s, sub) ==
    \E i \in 0..(Len(s) - Len(sub)) : SubSeq(s, i + 1, i + Len(sub)) = sub

\* python: s.split(sep)
RECURSIVE Split(_, _)
Split(s, sep) ==
    IF \E i \in 1..Len(s) : s[i] = sep
    THEN LET i == CHOOSE k \in 1..Len(s) :
                      s[k] = sep /\ \A j \in 1..(k - 1) : s[j] # sep
         IN  <<SubSeq(s, 1, i - 1)>> \o Split(SubSeq(s, i + 1, Len(s)), sep)
    ELSE <<s>>

Whitespace == {" ", "\n", "\t"}

\* python: s.strip()
RECURSIVE Strip(_)
Strip(s) ==
    IF s = <<>> THEN s
    ELSE IF Head(s) \in Whitespace THEN Strip(Tail(s))
    ELSE IF Last(s) \in Whitespace THEN Strip(SubSeq(s, 1, Len(s) - 1))
    ELSE s

\* number of occurrences of x in the sequence s
RECURSIVE Count(_, _)
Count(x, s) ==
    IF s = <<>> THEN 0
    ELSE (IF Head(s) = x THEN 1 ELSE 0) + Count(x, Tail(s))

\* ------------------------------------------------------------------- URLs

Base == <<"https:", "/", "/", "hh.ru">>

VacancyPrefix == <<"/", "vacancy", "/">>

\* listing hrefs the result pages expose
H1  == Base \o <<"/", "vacancy", "/", "1">>
H1q == H1 \o <<"?", "query", "=", "x">>
H1r == H1 \o <<"?", "from", "=", "serp">>
R2  == <<"/", "vacancy", "/", "2">>
H2  == Base \o R2
H3  == Base \o <<"/", "vacancy", "/", "3">>
S3  == Base \o <<"/", "vacancy", "/", "3", "/">>
Emp == Base \o <<"/", "employer", "/", "9">>
NoHref == <<>>

\* vacancy_url.split('/')[-1].split('?')[0]
VacancyId(vacancy_url) == Split(Last(Split(vacancy_url, "/")), "?")[1]

\* quote_plus of a value: a space becomes "+"
QuotePlus(v) == [i \in 1..Len(v) |-> IF v[i] = " " THEN "+" ELSE v[i]]

\* urlencode(params_dict): key=value pairs joined by "&"
RECURSIVE UrlEncode(_)
UrlEncode(params) ==
    IF params = <<>> THEN <<>>
    ELSE LET p == Head(params)
             one == <<p[1], "=">> \o QuotePlus(p[2])
         IN  IF Len(params) = 1 THEN one
             ELSE one \o <<"&">> \o UrlEncode(Tail(params))

\* the region looked up with "" as the default, as the other filters are
area_map_without_default(a) == IF a = <<"Moskva">> THEN <<"1">>
                               ELSE IF a = <<"Sankt-Peterburg">> THEN <<"2">>
                               ELSE <<>>

area_map(a) == IF a = <<"Moskva">> THEN <<"1">>
               ELSE IF a = <<"Sankt-Peterburg">> THEN <<"2">>
               ELSE <<"1">>

exp_map == {<<"noExperience">>, <<"between1And3">>, <<"between3And6">>,
            <<"moreThan6">>}

employment_map == {<<"full">>, <<"part">>, <<"project">>, <<"volunteer">>,
                   <<"probation">>}

schedule_map == {<<"fullDay">>, <<"shift">>, <<"flexible">>, <<"remote">>,
                 <<"flyInFlyOut">>}

\* a filter value is unset when it is missing, None, "" or 0
Unset == <<>>

\* the configured value used as it is, recognized or not
MapGetItself(map, value, default) == value

\* map.get(value, default) of a map whose values are its keys
MapGet(map, value, default) == IF value \in map THEN value ELSE default

\* every filter written to the query, set or not
BuildSearchUrlOfAllFilters(keyword, filters) ==
    Base \o <<"/", "search", "/", "vacancy", "?">>
         \o UrlEncode(<< <<"text", keyword>>,
                         <<"salary", IF filters.salary_min # 0
                                     THEN <<ToString(filters.salary_min)>> ELSE <<>> >>,
                         <<"area", area_map(filters.area)>>,
                         <<"experience", filters.experience>>,
                         <<"employment", filters.employment>>,
                         <<"schedule", filters.schedule>> >>)

\* _build_search_url(keyword)
BuildSearchUrl(keyword, filters) ==
    LET text == IF keyword # <<>> THEN << <<"text", keyword>> >>
                ELSE IF filters.keywords # <<>>
                     THEN << <<"text", filters.keywords[1]>> >>
                     ELSE <<>>
        salary == IF filters.salary_min # 0
                  THEN << <<"salary", <<ToString(filters.salary_min)>> >> >>
                  ELSE <<>>
        area == IF filters.area # Unset
                THEN << <<"area", area_map(filters.area)>> >>
                ELSE <<>>
        exp == IF filters.experience # Unset
                  /\ MapGet(exp_map, filters.experience, <<>>) # <<>>
               THEN << <<"experience", MapGet(exp_map, filters.experience, <<>>)>> >>
               ELSE <<>>
        emp == IF filters.employment # Unset
                  /\ MapGet(employment_map, filters.employment, <<>>) # <<>>
               THEN << <<"employment",
                         MapGet(employment_map, filters.employment, <<>>)>> >>
               ELSE <<>>
        sch == IF filters.schedule # Unset
                  /\ MapGet(schedule_map, filters.schedule, <<>>) # <<>>
               THEN << <<"schedule", MapGet(schedule_map, filters.schedule, <<>>)>> >>
               ELSE <<>>
    IN  Base \o <<"/", "search", "/", "vacancy", "?">>
             \o UrlEncode(text \o salary \o area \o exp \o emp \o sch)

\* ------------------------------------------------------ page interaction

\* exceptions the page layer and the ledger storage raise
Timeout == "TimeoutException"
NoSuch  == "NoSuchElementException"
Other   == "Exception"

\* what a call does: it returns, or raises one of the exceptions in raises
Outcomes(raises) == {"ok"} \cup raises

\* a browser location: kind is the page the site serves, url is what
\* driver.current_url returns there
Loc(kind, kw, page, url) == [kind |-> kind, kw |-> kw, page |-> page, url |-> url]

BlankLoc == Loc("blank", 0, 0, <<"about:blank">>)
LoginLoc == Loc("login", 0, 0, Base \o <<"/", "account", "/", "login">>)
HomeLoc  == Loc("home", 0, 0, Base \o <<"/">>)

VacancyLoc(vacancy_url) == Loc("vacancy", 0, 0, vacancy_url)

ResponseLoc(vacancy_url) ==
    Loc("response", 0, 0,
        Base \o <<"/", "applicant", "/", "vacancy_response", "?", "vacancyId", "=">>
             \o VacancyId(vacancy_url))

SearchLoc(kw, search_url) == Loc("search", kw, 1, search_url)

NextPageLoc(l) ==
    Loc("search", l.kw, l.page + 1,
        l.url \o <<"&", "page", "=", ToString(l.page)>>)

\* 'vacancy_response' in current_url or '/applicant/vacancy_response' in current_url
IsResponseForm(current_url) ==
    \/ Contains(current_url, <<"vacancy_response">>)
    \/ Contains(current_url, <<"/", "applicant", "/", "vacancy_response">>)

\* the check of the location before the page advance left out
IsSearchPageUnchecked(current_url) == TRUE

\* '/search/vacancy' in current_url
IsSearchPage(current_url) == Contains(current_url, <<"/", "search", "/", "vacancy">>)

\* where the browser is after driver.get(target) raised: the navigation may or
\* may not have taken place
AfterFailedGet(from, target) == {from, target}

\* ----------------------------------------------------------------- ledger

AbsentLedger == [exists |-> FALSE, lines |-> <<>>]

\* _load_applied_vacancies: set(line.strip() for line in f if line.strip())
LoadAppliedVacancies(file) ==
    IF file.exists
    THEN {Strip(file.lines[i]) : i \in {j \in 1..Len(file.lines) : Strip(file.lines[j]) # <<>>}}
    ELSE {}

\* the file opened with 'w': the write replaces what the file held
AppendLineTruncating(file, vacancy_id) ==
    [exists |-> TRUE, lines |-> <<vacancy_id>>]

\* open(..., 'a') ; f.write(f"{vacancy_id}\n")
AppendLine(file, vacancy_id) ==
    [exists |-> TRUE, lines |-> Append(file.lines, vacancy_id)]

\* ------------------------------------------------------ link enumeration

RECURSIVE CollectLinks(_, _, _)

\* the hrefs of the listing cards as they are, without the set of seen links
CollectLinksAsFound(hrefs, seen_links, links) ==
    links \o SelectSeq(hrefs, LAMBDA h : Contains(h, VacancyPrefix))

\* the loop over cards of _get_vacancy_links: resolve relative links, keep
\* links containing '/vacancy/', strip the query, drop duplicates
CollectLinks(hrefs, seen_links, links) ==
    IF hrefs = <<>> THEN links
    ELSE LET href == Head(hrefs)
             link == IF StartsWith(href, VacancyPrefix) THEN Base \o href ELSE href
             clean_link == Split(link, "?")[1]
         IN  IF href # NoHref /\ Contains(link, VacancyPrefix)
                /\ clean_link \notin seen_links
             THEN CollectLinks(Tail(hrefs), seen_links \cup {clean_link},
                               Append(links, clean_link))
             ELSE CollectLinks(Tail(hrefs), seen_links, links)

\* the cards whose get_attribute('href') did not raise
RECURSIVE Surviving(_, _, _)
Surviving(hrefs, bad, i) ==
    IF i > Len(hrefs) THEN <<>>
    ELSE (IF i \in bad THEN <<>> ELSE <<hrefs[i]>>) \o Surviving(hrefs, bad, i + 1)

\* ---------------------------------------------------------- configuration

Python == <<"python">>
BackendDeveloper == <<"backend", " ", "developer">>

Filters(keywords) ==
    [keywords |-> keywords, salary_min |-> 100000, area |-> <<"Moskva">>,
     experience |-> <<"between1And3">>, employment |-> Unset, schedule |-> <<"remote">>]

KeywordLists == {<<>>, <<Python>>, <<Python, BackendDeveloper>>}

Configs ==
    {[skip_already_applied |-> s, max_applications_per_day |-> m,
      search_filters |-> Filters(k)] :
        s \in BOOLEAN, m \in 0..MaxQuota, k \in KeywordLists}

\* the result pages of the site, per keyword (in configured order), per page
SiteA == << << <<H1, H1q, R2>> >>, << <<H1>> >> >>
SiteB == << << <<H1>>, <<R2, Emp>> >>, << <<>> >> >>
SiteC == << << <<S3, NoHref>> >>, << <<S3>> >> >>
SiteD == << << <<H1, R2, H3>> >> >>

Sites == {SiteA, SiteB, SiteC, SiteD}

\* ledger files earlier runs left behind
InitialLedgers == {AbsentLedger, [exists |-> TRUE, lines |-> << <<"1">> >>]}

\* ------------------------------------------------------------------ state

VARIABLES
    pc,                 \* position in run / _login / _apply_to_vacancy
    config, site,       \* configuration, and the site's result pages
    driver, loc,        \* browser session ("none", "open", "closed") and location
    quitCount,          \* number of driver.quit() calls
    ledgerFile,         \* applied_vacancies.txt
    applied_vacancies,  \* self.applied_vacancies
    applied_count, skipped_count, error_count,
    applications_today, kwIdx, page, vacancy_links, linkIdx, current_search_url,
    branch,             \* the branch of _apply_to_vacancy being executed
    result,             \* return value of _apply_to_vacancy
    op,                 \* the operation the last step performed
    interrupted,        \* a KeyboardInterrupt has been delivered
    outcome,            \* outcome of the current apply invocation
    retNav,             \* fate of its last return navigation
    markerSeen,         \* it found the already-applied marker
    nApplied, nErrored, \* number of apply invocations that ended Applied, Errored
    appliedIds,         \* identifiers of the invocations that ended Applied
    recordedIds,        \* ... that ended Applied or Skipped on the marker
    exitKind,           \* how run left its try block
    ledgerAtStart,      \* applied_vacancies.txt as the run found it
    ledgerBefore,       \* the ledger (file, set) when the current apply began
    countersBefore,     \* the three counters when the current apply began
    raisedAt,           \* where its "except Exception" was entered: <<pc, branch>>
    searched,           \* the keywords searched so far, in order of the searches
    loginCalls,         \* number of calls of _login
    loggedIn,           \* what _login returned: "none", "yes", "no"
    login               \* the call of _login: what the page showed, what was
                        \* entered and clicked, what the operator was asked

cfgVars     == <<config, site>>
browserVars == <<driver, loc, quitCount>>
ledgerVars  == <<ledgerFile, applied_vacancies>>
counterVars == <<applied_count, skipped_count, error_count>>
runVars     == <<applications_today, kwIdx, page, vacancy_links, linkIdx,
                 current_search_url>>
applyVars   == <<branch, result>>
ghostVars   == <<interrupted, outcome, retNav, markerSeen, nApplied, nErrored,
                 appliedIds, recordedIds>>

histVars    == <<ledgerAtStart, ledgerBefore, countersBefore, raisedAt, searched,
                 loginCalls, loggedIn, login>>
\* the history that a step of _apply_to_vacancy leaves alone
runHist     == <<ledgerAtStart, ledgerBefore, countersBefore, searched, loginCalls,
                 loggedIn, login>>

vars == <<pc, cfgVars, browserVars, ledgerVars, counterVars, runVars, applyVars,
          op, ghostVars, exitKind, histVars>>

\* the call of _login before anything was done
LoginNone ==
    [controls |-> <<>>, clicked |-> <<>>, did |-> {}, asked |-> {},
     answer |-> <<"-">>, missing |-> "none", menu |-> FALSE, captcha |-> FALSE,
     raised |-> {}]

\* __init__: load the configuration, zero the counters, load the ledger
Init ==
    /\ pc = "setup"
    /\ config \in Configs
    /\ site \in Sites
    /\ driver = "none" /\ loc = BlankLoc /\ quitCount = 0
    /\ ledgerFile \in InitialLedgers
    \* the page of three listings is run with one keyword and no ledger file
    /\ site = SiteD =>
         (config.search_filters.keywords = <<Python>> /\ ledgerFile = AbsentLedger)
    /\ applied_vacancies = LoadAppliedVacancies(ledgerFile)
    /\ applied_count = 0 /\ skipped_count = 0 /\ error_count = 0
    /\ applications_today = 0 /\ kwIdx = 0 /\ page = 0
    /\ vacancy_links = <<>> /\ linkIdx = 0 /\ current_search_url = BlankLoc
    /\ branch = "none" /\ result = FALSE
    /\ op = "none" /\ interrupted = FALSE /\ outcome = "none" /\ retNav = "none"
    /\ markerSeen = FALSE
    /\ nApplied = 0 /\ nErrored = 0 /\ appliedIds = {} /\ recordedIds = {}
    /\ exitKind = "none"
    /\ ledgerAtStart = ledgerFile
    /\ ledgerBefore = <<>> /\ countersBefore = <<>> /\ raisedAt = <<>>
    /\ searched = <<>> /\ loginCalls = 0 /\ loggedIn = "none"
    /\ login = LoginNone

keywords == config.search_filters.keywords
max_applications == config.max_applications_per_day

\* -------------------------------------------------- run: top-level exits

\* the quota check written with > instead of >=
QuotaReachedOffByOne(n, max) == n > max

\* max_applications reached: applications_today >= max_applications
QuotaReached(n, max) == n >= max

\* the check after the listings of a page left out
QuotaUncheckedAfterPage(n, max) == FALSE

\* the check after the listings of a page
QuotaReachedAfterPage(n, max) == n >= max

\* an exception or a return inside the try block of run: control passes to the
\* except clauses and then to the finally block
LeaveRun(kind) ==
    /\ pc' = "finally"
    /\ exitKind' = kind

\* an exception reaches "except Exception" of run
RaiseToRun == LeaveRun("exception")

\* steps that only read or write program variables
NoPageOp == op' = "none"

\* _setup_driver: the session is opened; a later call of the set-up may raise
SetupDriver ==
    /\ pc = "setup"
    /\ \E o \in {"ok", "before_open", "after_open"} :
         /\ driver' = IF o = "before_open" THEN "none" ELSE "open"
         /\ IF o = "ok" THEN pc' = "login_open" /\ exitKind' = exitKind
                        ELSE RaiseToRun
    /\ op' = "setup"
    /\ UNCHANGED <<histVars, cfgVars, loc, quitCount, ledgerVars, counterVars, runVars,
                   applyVars, ghostVars>>

\* ----------------------------------------------------------------- _login

\* run goes on whatever _login returned
LoginReturnIgnored(ok) ==
    /\ loggedIn' = IF ok THEN "yes" ELSE "no"
    /\ pc' = "config" /\ exitKind' = exitKind

\* _login returns: run goes on when it is True and returns when it is False
LoginReturn(ok) ==
    /\ loggedIn' = IF ok THEN "yes" ELSE "no"
    /\ IF ok THEN pc' = "config" /\ exitKind' = exitKind
             ELSE LeaveRun("auth_failed")

\* _login goes on with its next stage
LoginGoesOn(next) ==
    /\ pc' = next
    /\ exitKind' = exitKind
    /\ loggedIn' = loggedIn

\* driver.get("https://hh.ru/account/login")
LoginOpen ==
    /\ pc = "login_open"
    /\ \E o \in Outcomes({Timeout, Other}) :
         /\ IF o = "ok"
            THEN loc' = LoginLoc /\ pc' = "login_wait"
            ELSE loc' \in AfterFailedGet(loc, LoginLoc) /\ pc' = "login_failed"
         /\ login' = [login EXCEPT !.raised = IF o = "ok" THEN @
                                              ELSE @ \cup {"unhandled"}]
    /\ op' = "login"
    /\ loginCalls' = loginCalls + 1
    /\ UNCHANGED <<ledgerAtStart, ledgerBefore, countersBefore, raisedAt, searched, loggedIn>>
    /\ UNCHANGED <<cfgVars, driver, quitCount, ledgerVars, counterVars, runVars,
                   applyVars, ghostVars, exitKind>>

\* the waits for the page and the login card: a timeout is logged only
LoginWait ==
    /\ pc = "login_wait"
    /\ pc' = "login_stages"
    /\ op' = "login"
    /\ UNCHANGED <<histVars, cfgVars, browserVars, ledgerVars, counterVars, runVars,
                   applyVars, ghostVars, exitKind>>

\* -------------------------------------------------- _login: the form

\* a button of the login page: data-qa, text, type='submit', and whether it
\* is displayed and enabled
Button(qa, text, submit, shown) ==
    [qa |-> qa, text |-> text, submit |-> submit, shown |-> shown]

QaPassword == <<"expand-", "login", "-by-password">>
QaSubmit   == <<"account-", "login", "-", "submit">>
QaNone     == <<>>

\* the texts of the buttons, transliterated
TextNext     == <<"Dalshe">>
TextPassword == <<"Voiti", " ", "s", " ", "parol", "em">>
TextContinue == <<"Prodolzh", "it">>
TextLogin    == <<"Voiti">>

\* python: s.lower()
Lower(s) ==
    [i \in 1..Len(s) |->
        CASE s[i] = "Dalshe"  -> "dalshe"
          [] s[i] = "Voiti"   -> "voiti"
          [] s[i] = "Prodolzh" -> "prodolzh"
          [] s[i] = "Y"       -> "y"
          [] OTHER            -> s[i]]

PasswordButton == Button(QaPassword, TextPassword, FALSE, TRUE)
HiddenPasswordButton == Button(QaPassword, TextPassword, FALSE, FALSE)
NextButton     == Button(QaNone, TextNext, TRUE, TRUE)
NextSubmit     == Button(QaSubmit, TextNext, TRUE, TRUE)
ContinueButton == Button(QaNone, TextContinue, TRUE, TRUE)
PasswordSubmit == Button(QaSubmit, TextPassword, FALSE, TRUE)
LoginButton    == Button(QaSubmit, TextLogin, TRUE, TRUE)

\* the buttons the login page may show once the e-mail is entered, in
\* document order
LoginControls ==
    {<<>>, <<PasswordButton>>, <<NextButton>>, <<NextButton, PasswordButton>>,
     <<NextSubmit, ContinueButton>>, <<NextButton, LoginButton>>,
     <<HiddenPasswordButton, NextSubmit>>, <<NextButton, PasswordSubmit>>,
     <<LoginButton>>}

\* the first element of a sequence that satisfies a test, as a sequence of
\* length 0 or 1
FirstOf(s, Test(_)) ==
    LET t == SelectSeq(s, Test) IN IF t = <<>> THEN <<>> ELSE <<Head(t)>>

\* the text of the button names the "next" step of the telephone flow
IsNextText(btn) ==
    /\ Contains(Lower(btn.text), <<"dalshe">>)
    /\ ~Contains(btn.qa, QaPassword)

\* driver.find_element("button[data-qa='expand-login-by-password']"), kept
\* when displayed and enabled
FindPasswordButton(buttons) ==
    LET first == FirstOf(buttons, LAMBDA b : b.qa = QaPassword)
    IN  IF first # <<>> /\ first[1].shown THEN first ELSE <<>>

\* the loop over continue_selectors: "Dalshe" is skipped, a text with "parol"
\* or "prodolzh" is taken
FindBySelectors(buttons) ==
    LET candidates == SelectSeq(buttons, LAMBDA b : b.qa = QaSubmit)
                        \o SelectSeq(buttons, LAMBDA b : b.submit)
    IN  FirstOf(candidates,
                LAMBDA b : /\ b.shown
                           /\ ~IsNextText(b)
                           /\ \/ Contains(Lower(b.text), <<"parol">>)
                              \/ Contains(Lower(b.text), <<"prodolzh">>))

\* the script of the fallback: the password button, else a submit or login
\* button whose text holds "parol", "Dalshe" skipped
FindByScript(buttons) ==
    LET first == FirstOf(buttons, LAMBDA b : b.qa = QaPassword)
    IN  IF first # <<>> /\ first[1].shown THEN first
        ELSE FirstOf(buttons,
                     LAMBDA b : /\ \/ b.submit
                                   \/ Contains(b.qa, <<"submit">>)
                                   \/ Contains(b.qa, <<"login">>)
                                /\ b.shown
                                /\ ~IsNextText(b)
                                /\ Contains(Lower(b.text), <<"parol">>))

\* the search of the continue button without the exclusion of "Dalshe": the
\* first displayed submit button is taken
FindContinueAnySubmit(buttons) ==
    FirstOf(buttons, LAMBDA b : b.shown /\ (b.submit \/ b.qa = QaSubmit))

\* continue_btn: the password button, else the selectors, else the script
FindContinue(buttons) ==
    IF FindPasswordButton(buttons) # <<>> THEN FindPasswordButton(buttons)
    ELSE IF FindBySelectors(buttons) # <<>> THEN FindBySelectors(buttons)
    ELSE FindByScript(buttons)

\* a stage of _login has been carried out
Did(stage) == login' = [login EXCEPT !.did = @ \cup {stage}]

\* an exception leaves _login instead of reaching its "except Exception"
LoginRaiseEscapes ==
    /\ RaiseToRun
    /\ loggedIn' = loggedIn
    /\ login' = login

\* an exception inside the try block of _login reaches "except Exception"
LoginRaise ==
    /\ LoginGoesOn("login_failed")
    /\ login' = [login EXCEPT !.raised = @ \cup {"unhandled"}]

\* "login" in current_url.lower()
IsLoginPage(current_url) == Contains(Lower(current_url), <<"login">>)

\* the lookups of the classification that raise NoSuchElementException,
\* each caught on the spot: the menu off the login page, the captcha when
\* the location did not decide
LookupsRaised(current_url, menu, captcha) ==
    (IF ~IsLoginPage(current_url) /\ ~menu THEN {"menu"} ELSE {})
    \cup (IF /\ IsLoginPage(current_url) \/ (~menu /\ ~Contains(current_url, <<"hh.ru">>))
            /\ ~captcha
         THEN {"captcha"} ELSE {})

\* the manual pause returning False
ManualPauseFails(why) ==
    /\ login' = [login EXCEPT !.asked = @ \cup {"pause"}, !.missing = why,
                              !.raised = IF why = "captcha"
                                         THEN @ \cup LookupsRaised(loc.url, login.menu,
                                                                   login.captcha)
                                         ELSE @]
    /\ LoginReturn(FALSE)

\* input("... Enter ..."); return True
ManualPause(why) ==
    /\ login' = [login EXCEPT !.asked = @ \cup {"pause"}, !.missing = why,
                              !.raised = IF why = "captcha"
                                         THEN @ \cup LookupsRaised(loc.url, login.menu,
                                                                   login.captcha)
                                         ELSE @]
    /\ LoginReturn(TRUE)

\* what the operator may type at a yes/no prompt
Answers == {<<"y">>, <<"Y">>, <<"yes">>, <<"da">>, <<>>, <<"n">>}

\* the prompt of the classification with the answers of the handler
AffirmativeOrEnterStrict(user_input) ==
    Lower(user_input) \in {<<"y">>, <<"yes">>, <<"da">>}

\* user_input.lower() in ['y', 'yes', 'da', '']
AffirmativeOrEnter(user_input) ==
    Lower(user_input) \in {<<"y">>, <<"yes">>, <<"da">>, <<>>}

\* user_input.lower() in ['y', 'yes', 'da']
Affirmative(user_input) ==
    Lower(user_input) \in {<<"y">>, <<"yes">>, <<"da">>}

\* the button "Voiti" that opens the form and the radio button of the e-mail
\* method: every failure is logged only
LoginShowForm ==
    /\ pc = "login_stages"
    /\ pc' = "login_email"
    /\ op' = "login"
    /\ UNCHANGED <<histVars, cfgVars, browserVars, ledgerVars, counterVars, runVars,
                   applyVars, ghostVars, exitKind>>

\* the e-mail field is looked for by selectors (five rounds) and by script;
\* not found: the manual pause
LoginFindEmail ==
    /\ pc = "login_email"
    /\ \E email_input \in {"found", "none"} :
         IF email_input = "found"
         THEN LoginGoesOn("login_email_fill") /\ login' = login
         ELSE ManualPause("email")
    /\ op' = "login"
    /\ UNCHANGED <<ledgerAtStart, ledgerBefore, countersBefore, raisedAt, searched,
                   loginCalls>>
    /\ UNCHANGED <<cfgVars, browserVars, ledgerVars, counterVars, runVars,
                   applyVars, ghostVars>>

\* scrollIntoView, clear, click, send_keys(email): the page then shows its
\* continue buttons (login.controls keeps what it showed)
LoginFillEmail ==
    /\ pc = "login_email_fill"
    /\ \E o \in Outcomes({Other}), controls \in LoginControls :
         IF o = "ok"
         THEN /\ login' = [login EXCEPT !.did = @ \cup {"email"},
                                        !.controls = controls]
              /\ LoginGoesOn("login_continue")
         ELSE LoginRaise
    /\ op' = "login"
    /\ UNCHANGED <<ledgerAtStart, ledgerBefore, countersBefore, raisedAt, searched,
                   loginCalls>>
    /\ UNCHANGED <<cfgVars, browserVars, ledgerVars, counterVars, runVars,
                   applyVars, ghostVars>>

\* the continue button is looked for and clicked by script (again when the
\* click is intercepted); none found: Enter in the e-mail field
LoginContinue ==
    /\ pc = "login_continue"
    /\ LET continue_btn == FindContinue(login.controls)
       IN  \E o \in Outcomes({"intercepted", Other}), again \in Outcomes({Other}) :
             IF o = "ok" \/ (continue_btn # <<>> /\ o = "intercepted" /\ again = "ok")
             THEN /\ login' = [login EXCEPT
                                 !.did = @ \cup {IF continue_btn # <<>>
                                                 THEN "continue" ELSE "enter_email"},
                                 !.clicked = continue_btn]
                  /\ LoginGoesOn("login_password")
             ELSE LoginRaise
    /\ op' = "login"
    /\ UNCHANGED <<ledgerAtStart, ledgerBefore, countersBefore, raisedAt, searched,
                   loginCalls>>
    /\ UNCHANGED <<cfgVars, browserVars, ledgerVars, counterVars, runVars,
                   applyVars, ghostVars>>

\* the password field is looked for by selectors (five rounds) and by script;
\* not found: the manual pause
LoginFindPassword ==
    /\ pc = "login_password"
    /\ \E password_input \in {"found", "none"} :
         IF password_input = "found"
         THEN LoginGoesOn("login_password_fill") /\ login' = login
         ELSE ManualPause("password")
    /\ op' = "login"
    /\ UNCHANGED <<ledgerAtStart, ledgerBefore, countersBefore, raisedAt, searched,
                   loginCalls>>
    /\ UNCHANGED <<cfgVars, browserVars, ledgerVars, counterVars, runVars,
                   applyVars, ghostVars>>

\* scrollIntoView, clear, click, send_keys(password)
LoginFillPassword ==
    /\ pc = "login_password_fill"
    /\ \E o \in Outcomes({Other}) :
         IF o = "ok"
         THEN Did("password") /\ LoginGoesOn("login_submit")
         ELSE LoginRaise
    /\ op' = "login"
    /\ UNCHANGED <<ledgerAtStart, ledgerBefore, countersBefore, raisedAt, searched,
                   loginCalls>>
    /\ UNCHANGED <<cfgVars, browserVars, ledgerVars, counterVars, runVars,
                   applyVars, ghostVars>>

\* where the site leads after the form is submitted
ElsewhereLoc == Loc("elsewhere", 0, 0, <<"https:", "/", "/", "id.example", "/", "check">>)

\* the submit button is clicked by script, or Enter is sent to the password
\* field; the site answers with a page
LoginSubmit ==
    /\ pc = "login_submit"
    /\ \E login_btn \in {"found", "none"}, o \in Outcomes({Other}),
          menu \in BOOLEAN, captcha \in BOOLEAN :
         IF o = "ok"
         THEN /\ login' = [login EXCEPT
                             !.did = @ \cup {IF login_btn = "found"
                                             THEN "submit" ELSE "enter_password"},
                             !.menu = menu, !.captcha = captcha]
              /\ loc' \in {LoginLoc, HomeLoc, ElsewhereLoc}
              /\ LoginGoesOn("login_classify")
         ELSE /\ loc' = loc
              /\ LoginRaise
    /\ op' = "login"
    /\ UNCHANGED <<ledgerAtStart, ledgerBefore, countersBefore, raisedAt, searched,
                   loginCalls>>
    /\ UNCHANGED <<cfgVars, driver, quitCount, ledgerVars, counterVars, runVars,
                   applyVars, ghostVars>>

\* the classification with the captcha looked for before the location
ClassificationCaptchaFirst(current_url, menu, captcha) ==
    IF captcha THEN "pause"
    ELSE IF ~IsLoginPage(current_url) /\ (menu \/ Contains(current_url, <<"hh.ru">>))
         THEN "success"
    ELSE "ask"

\* the classification of the page after the submission: success by the
\* location, the pause on a captcha, or the question to the operator
Classification(current_url, menu, captcha) ==
    IF ~IsLoginPage(current_url) /\ menu THEN "success"
    ELSE IF ~IsLoginPage(current_url) /\ Contains(current_url, <<"hh.ru">>)
         THEN "success"
    ELSE IF captcha THEN "pause"
    ELSE "ask"

\* the classification of the outcome: current_url, the lookup of the menu
\* and of the captcha may raise
LoginClassify ==
    /\ pc = "login_classify"
    /\ \E o \in Outcomes({Other}), user_input \in Answers :
         IF o # "ok" THEN LoginRaise
         ELSE CASE Classification(loc.url, login.menu, login.captcha) = "success" ->
                     /\ LoginReturn(TRUE)
                     /\ login' = [login EXCEPT !.raised = @ \cup
                                     LookupsRaised(loc.url, login.menu, login.captcha)]
                [] Classification(loc.url, login.menu, login.captcha) = "pause" ->
                     ManualPause("captcha")
                [] OTHER ->
                     /\ login' = [login EXCEPT !.asked = @ \cup {"yesno"},
                                               !.answer = user_input,
                                               !.raised = @ \cup
                                     LookupsRaised(loc.url, login.menu, login.captcha)]
                     /\ LoginReturn(AffirmativeOrEnter(user_input))
    /\ op' = "login"
    /\ UNCHANGED <<ledgerAtStart, ledgerBefore, countersBefore, raisedAt, searched,
                   loginCalls>>
    /\ UNCHANGED <<cfgVars, browserVars, ledgerVars, counterVars, runVars,
                   applyVars, ghostVars>>

\* except Exception of _login: the operator is asked
LoginFailed ==
    /\ pc = "login_failed"
    /\ \E user_input \in Answers :
         /\ login' = [login EXCEPT !.asked = @ \cup {"manual"}, !.answer = user_input]
         /\ LoginReturn(Affirmative(user_input))
    /\ op' = "login"
    /\ UNCHANGED <<ledgerAtStart, ledgerBefore, countersBefore, raisedAt, searched,
                   loginCalls>>
    /\ UNCHANGED <<cfgVars, browserVars, ledgerVars, counterVars, runVars,
                   applyVars, ghostVars>>

\* -------------------------------------------------------------------- run

\* run without "if not keywords: return"
ReadConfigWithoutKeywordCheck ==
    /\ pc = "config"
    /\ applications_today' = 0
    /\ pc' = "kw_head" /\ kwIdx' = 1 /\ exitKind' = exitKind
    /\ NoPageOp
    /\ login' = LoginNone
    /\ UNCHANGED <<ledgerAtStart, ledgerBefore, countersBefore, raisedAt, searched,
                   loginCalls, loggedIn>>
    /\ UNCHANGED <<cfgVars, browserVars, ledgerVars, counterVars, page,
                   vacancy_links, linkIdx, current_search_url, applyVars, ghostVars>>

\* max_applications, applications_today = 0, the keyword list
ReadConfig ==
    /\ pc = "config"
    /\ applications_today' = 0
    /\ IF keywords = <<>>
       THEN LeaveRun("no_keywords") /\ kwIdx' = kwIdx
       ELSE pc' = "kw_head" /\ kwIdx' = 1 /\ exitKind' = exitKind
    /\ NoPageOp
    /\ login' = LoginNone
    /\ UNCHANGED <<ledgerAtStart, ledgerBefore, countersBefore, raisedAt, searched,
                   loginCalls, loggedIn>>
    /\ UNCHANGED <<cfgVars, browserVars, ledgerVars, counterVars, page,
                   vacancy_links, linkIdx, current_search_url, applyVars, ghostVars>>

\* head of the loop over the keywords: the quota check, then the search
KeywordHead ==
    /\ pc = "kw_head"
    /\ IF kwIdx > Len(keywords) \/ QuotaReached(applications_today, max_applications)
       THEN /\ pc' = "summary" /\ exitKind' = exitKind
            /\ NoPageOp
            /\ UNCHANGED <<loc, page, searched>>
       ELSE \E o \in Outcomes({Timeout, Other}) :
              LET search_url == BuildSearchUrl(keywords[kwIdx], config.search_filters)
              IN  IF o = "ok"
                  THEN /\ loc' = SearchLoc(kwIdx, search_url)
                       /\ page' = 0
                       /\ pc' = "page_head" /\ exitKind' = exitKind
                       /\ op' = "search"
                       /\ searched' = Append(searched, kwIdx)
                  ELSE /\ loc' \in AfterFailedGet(loc, SearchLoc(kwIdx, search_url))
                       /\ page' = page
                       /\ searched' = searched
                       /\ RaiseToRun
                       /\ NoPageOp
    /\ UNCHANGED <<ledgerAtStart, ledgerBefore, countersBefore, raisedAt, loginCalls, loggedIn,
                   login>>
    /\ UNCHANGED <<cfgVars, driver, quitCount, ledgerVars, counterVars,
                   applications_today, kwIdx, vacancy_links, linkIdx,
                   current_search_url, applyVars, ghostVars>>

\* while applications_today < max_applications: page += 1
PageHead ==
    /\ pc = "page_head"
    /\ IF QuotaReached(applications_today, max_applications)
       THEN pc' = "kw_tail" /\ page' = page
       ELSE pc' = "fetch" /\ page' = page + 1
    /\ NoPageOp
    /\ UNCHANGED <<histVars, cfgVars, browserVars, ledgerVars, counterVars, applications_today,
                   kwIdx, vacancy_links, linkIdx, current_search_url, applyVars,
                   ghostVars, exitKind>>

\* the anchors the current page shows
PageHrefs(l) ==
    IF l.kind = "search" /\ l.kw \in 1..Len(site) /\ l.page \in 1..Len(site[l.kw])
    THEN site[l.kw][l.page]
    ELSE <<>>

\* "continue" in place of "break": a page without links goes on to the page
\* advance
GotLinksGoesOn(links) ==
    /\ vacancy_links' = links
    /\ IF links = <<>>
       THEN pc' = "page_tail" /\ UNCHANGED <<linkIdx, current_search_url>>
       ELSE pc' = "link_head" /\ linkIdx' = 1 /\ current_search_url' = loc

\* run after _get_vacancy_links returned links: no links ends the keyword,
\* else the page's URL is saved and the listings are processed
GotLinks(links) ==
    /\ vacancy_links' = links
    /\ IF links = <<>>
       THEN pc' = "kw_tail" /\ UNCHANGED <<linkIdx, current_search_url>>
       ELSE pc' = "link_head" /\ linkIdx' = 1 /\ current_search_url' = loc

\* _get_vacancy_links with the primary selector: the cards are found, the wait
\* times out (the alternative selectors are tried), or the enumeration raises
GetVacancyLinks ==
    /\ pc = "fetch"
    /\ \E o \in Outcomes({Timeout, Other}) :
         CASE o = "ok" ->
                \E bad \in SUBSET (1..Len(PageHrefs(loc))) :
                    GotLinks(CollectLinks(Surviving(PageHrefs(loc), bad, 1), {}, <<>>))
           [] o = Timeout ->
                pc' = "fetch_alt"
                /\ UNCHANGED <<vacancy_links, linkIdx, current_search_url>>
           [] o = Other -> GotLinks(<<>>)
    /\ op' = "fetch"
    /\ UNCHANGED <<histVars, cfgVars, browserVars, ledgerVars, counterVars, applications_today,
                   kwIdx, page, applyVars, ghostVars, exitKind>>

\* a[href^='https://hh.ru/vacancy/']
MatchesAbsoluteVacancy(href) == StartsWith(href, Base \o VacancyPrefix)

\* a[href*='/vacancy/'][data-qa*='serp']
MatchesSerpVacancy(href) == Contains(href, VacancyPrefix)

\* the alternative selectors, in order: the first that finds cards wins; a
\* selector whose lookup raises is skipped
AlternativeCards(hrefs, first, second) ==
    IF first = "ok" /\ SelectSeq(hrefs, MatchesAbsoluteVacancy) # <<>>
    THEN SelectSeq(hrefs, MatchesAbsoluteVacancy)
    ELSE IF second = "ok" THEN SelectSeq(hrefs, MatchesSerpVacancy)
    ELSE <<>>

GetVacancyLinksAlt ==
    /\ pc = "fetch_alt"
    /\ \E first \in Outcomes({Other}), second \in Outcomes({Other}) :
         LET cards == AlternativeCards(PageHrefs(loc), first, second)
         IN  \E bad \in SUBSET (1..Len(cards)) :
                 GotLinks(CollectLinks(Surviving(cards, bad, 1), {}, <<>>))
    /\ op' = "fetch"
    /\ UNCHANGED <<histVars, cfgVars, browserVars, ledgerVars, counterVars, applications_today,
                   kwIdx, page, applyVars, ghostVars, exitKind>>

\* head of the loop over the listings of the page: the quota check
LinkHead ==
    /\ pc = "link_head"
    /\ IF linkIdx > Len(vacancy_links)
          \/ QuotaReached(applications_today, max_applications)
       THEN pc' = "page_tail"
       ELSE pc' = "a_entry"
    /\ NoPageOp
    /\ UNCHANGED <<histVars, cfgVars, browserVars, ledgerVars, counterVars, runVars, applyVars,
                   ghostVars, exitKind>>

\* ------------------------------------------------------ _apply_to_vacancy

vacancy_url == vacancy_links[linkIdx]
search_page_url == current_search_url
vacancy_id == VacancyId(vacancy_url)

\* the ledger looked up with the URL of the listing instead of its identifier
AlreadyInLedgerByUrl(id) ==
    config.skip_already_applied /\ vacancy_url \in applied_vacancies

\* skip_already_applied and vacancy_id in self.applied_vacancies
AlreadyInLedger(id) ==
    config.skip_already_applied /\ id \in applied_vacancies

\* _apply_to_vacancy returns
ApplyReturn(value, how) ==
    /\ pc' = "a_return"
    /\ result' = value
    /\ outcome' = how

\* "except Exception" of _apply_to_vacancy without its error_count += 1
ApplyRaiseUncounted ==
    /\ pc' = "a_back"
    /\ branch' = "handler"
    /\ error_count' = error_count

\* _apply_to_vacancy without its "except Exception": the exception leaves the
\* method
ApplyRaiseEscapes ==
    /\ pc' = "finally"
    /\ UNCHANGED <<branch, error_count>>

\* an exception reaches "except Exception" of _apply_to_vacancy:
\* error_count += 1, then the return navigation of the handler
ApplyRaise ==
    /\ pc' = "a_back"
    /\ branch' = "handler"
    /\ error_count' = error_count + 1

\* the place where a step entered "except Exception" of _apply_to_vacancy
RaiseNoted ==
    raisedAt' = IF branch' = "handler" /\ branch # "handler"
                THEN <<pc, branch>> ELSE raisedAt

\* entry: the identifier and the ledger check
ApplyEntry ==
    /\ pc = "a_entry"
    /\ IF AlreadyInLedger(vacancy_id)
       THEN /\ skipped_count' = skipped_count + 1
            /\ branch' = "ledger"
            /\ ApplyReturn(FALSE, "Skipped")
       ELSE /\ skipped_count' = skipped_count
            /\ branch' = "main"
            /\ pc' = "a_get"
            /\ UNCHANGED <<result, outcome>>
    /\ retNav' = "none" /\ markerSeen' = FALSE
    /\ ledgerBefore' = <<ledgerFile, applied_vacancies>>
    /\ countersBefore' = <<applied_count, skipped_count, error_count>>
    /\ raisedAt' = <<>>
    /\ op' = "apply"
    /\ UNCHANGED <<ledgerAtStart, searched, loginCalls, loggedIn, login>>
    /\ UNCHANGED <<cfgVars, browserVars, ledgerVars, applied_count, error_count,
                   runVars, interrupted, nApplied, nErrored, appliedIds, recordedIds,
                   exitKind>>

\* driver.get(vacancy_url): the listing page, or a redirect to the response form
ApplyOpen ==
    /\ pc = "a_get"
    /\ \E o \in Outcomes({Timeout, Other}) :
         IF o = "ok"
         THEN /\ loc' \in {VacancyLoc(vacancy_url), ResponseLoc(vacancy_url)}
              /\ pc' = "a_chk1"
              /\ op' = "open_listing"
              /\ UNCHANGED <<branch, error_count>>
         ELSE /\ loc' \in AfterFailedGet(loc, VacancyLoc(vacancy_url))
              /\ ApplyRaise
              /\ NoPageOp
    /\ RaiseNoted
    /\ UNCHANGED <<runHist, cfgVars, driver, quitCount, ledgerVars, applied_count,
                   skipped_count, runVars, result, ghostVars, exitKind>>

\* the response-form check after the navigation and after the click
ResponseCheck(here, br, next) ==
    /\ pc = here
    /\ \E o \in Outcomes({Other}) :
         IF o # "ok"
         THEN ApplyRaise /\ skipped_count' = skipped_count
         ELSE IF IsResponseForm(loc.url)
              THEN /\ skipped_count' = skipped_count + 1
                   /\ pc' = "a_back" /\ branch' = br
                   /\ error_count' = error_count
              ELSE /\ pc' = next
                   /\ UNCHANGED <<skipped_count, branch, error_count>>
    /\ NoPageOp
    /\ RaiseNoted
    /\ UNCHANGED <<runHist, cfgVars, browserVars, ledgerVars, applied_count, runVars, result,
                   ghostVars, exitKind>>

ApplyCheckOpened == ResponseCheck("a_chk1", "resp1", "a_find")

\* the apply control: each selector is waited for, a timeout tries the next
ApplyFindButton ==
    /\ pc = "a_find"
    /\ \E o \in {"found", "not_found", Other} :
         CASE o = "found"     -> pc' = "a_click" /\ UNCHANGED <<branch, error_count>>
           [] o = "not_found" -> pc' = "a_marker" /\ UNCHANGED <<branch, error_count>>
           [] o = Other       -> ApplyRaise
    /\ op' = "find_apply"
    /\ RaiseNoted
    /\ UNCHANGED <<runHist, cfgVars, browserVars, ledgerVars, applied_count, skipped_count,
                   runVars, result, ghostVars, exitKind>>

\* no apply control: the already-applied marker is looked up
ApplyMarker ==
    /\ pc = "a_marker"
    /\ \E o \in {"found", NoSuch, Other} :
         CASE o = "found" -> pc' = "a_save_mem" /\ branch' = "marker"
                             /\ error_count' = error_count
           [] o = NoSuch  -> pc' = "a_back" /\ branch' = "nobutton"
                             /\ error_count' = error_count + 1
           [] o = Other   -> ApplyRaise
    /\ markerSeen' = (pc' = "a_save_mem")
    /\ NoPageOp
    /\ RaiseNoted
    /\ UNCHANGED <<runHist, cfgVars, browserVars, ledgerVars, applied_count, skipped_count,
                   runVars, result, interrupted, outcome, retNav, nApplied, nErrored,
                   appliedIds, recordedIds, exitKind>>

\* scrollIntoView and apply_button.click(): the popup opens, or the browser
\* goes to the response form
ApplyClick ==
    /\ pc = "a_click"
    /\ \E o \in Outcomes({Timeout, Other}) :
         IF o = "ok"
         THEN /\ loc' \in {loc, ResponseLoc(vacancy_url)}
              /\ pc' = "a_chk2"
              /\ op' = "apply_click"
              /\ UNCHANGED <<branch, error_count>>
         ELSE /\ loc' = loc
              /\ ApplyRaise
              /\ NoPageOp
    /\ RaiseNoted
    /\ UNCHANGED <<runHist, cfgVars, driver, quitCount, ledgerVars, applied_count,
                   skipped_count, runVars, result, ghostVars, exitKind>>

ApplyCheckClicked == ResponseCheck("a_chk2", "resp2", "a_cookie")

\* the cookie banner: only NoSuchElementException is caught around the lookup
ApplyCookieBanner ==
    /\ pc = "a_cookie"
    /\ \E o \in {"displayed", "hidden", NoSuch, Other} :
         CASE o = "displayed" -> pc' = "a_cookie_accept" /\ UNCHANGED <<branch, error_count>>
           [] o \in {"hidden", NoSuch} -> pc' = "a_cover" /\ UNCHANGED <<branch, error_count>>
           [] o = Other -> ApplyRaise
    /\ NoPageOp
    /\ RaiseNoted
    /\ UNCHANGED <<runHist, cfgVars, browserVars, ledgerVars, applied_count, skipped_count,
                   runVars, result, ghostVars, exitKind>>

\* the accept button is found and clicked by script; a bare except hides the
\* banner instead
ApplyCookieAccept ==
    /\ pc = "a_cookie_accept"
    /\ \E o \in Outcomes({NoSuch, Other}) :
         pc' = IF o = "ok" THEN "a_cover" ELSE "a_cookie_hide"
    /\ NoPageOp
    /\ UNCHANGED <<histVars, cfgVars, browserVars, ledgerVars, counterVars, runVars, applyVars,
                   ghostVars, exitKind>>

\* the banner is hidden by script, inside the handler of the bare except
ApplyCookieHide ==
    /\ pc = "a_cookie_hide"
    /\ \E o \in Outcomes({NoSuch, Timeout, Other}) :
         IF o \in {"ok", NoSuch}
         THEN pc' = "a_cover" /\ UNCHANGED <<branch, error_count>>
         ELSE ApplyRaise
    /\ NoPageOp
    /\ RaiseNoted
    /\ UNCHANGED <<runHist, cfgVars, browserVars, ledgerVars, applied_count, skipped_count,
                   runVars, result, ghostVars, exitKind>>

\* the cover letter: TimeoutException of the wait, clear or send_keys is caught
ApplyCoverLetter ==
    /\ pc = "a_cover"
    /\ \E o \in Outcomes({Timeout, Other}) :
         IF o \in {"ok", Timeout}
         THEN pc' = "a_submit" /\ UNCHANGED <<branch, error_count>>
         ELSE ApplyRaise
    /\ op' = "cover_letter"
    /\ RaiseNoted
    /\ UNCHANGED <<runHist, cfgVars, browserVars, ledgerVars, applied_count, skipped_count,
                   runVars, result, ghostVars, exitKind>>

\* the submission control is waited for and scrolled to; TimeoutException
\* enters the branch "sent without confirmation"
ApplyFindSubmit ==
    /\ pc = "a_submit"
    /\ \E o \in Outcomes({Timeout, Other}) :
         CASE o = "ok"    -> pc' = "a_submit_click" /\ UNCHANGED <<branch, error_count>>
           [] o = Timeout -> pc' = "a_save_mem" /\ branch' = "noconfirm"
                             /\ error_count' = error_count
           [] o = Other   -> ApplyRaise
    /\ op' = "find_submit"
    /\ RaiseNoted
    /\ UNCHANGED <<runHist, cfgVars, browserVars, ledgerVars, applied_count, skipped_count,
                   runVars, result, ghostVars, exitKind>>

\* submit_button.click(); a bare except clicks by script instead
ApplySubmitClick ==
    /\ pc = "a_submit_click"
    /\ \E o \in Outcomes({Timeout, Other}) :
         IF o = "ok"
         THEN pc' = "a_save_mem" /\ branch' = "applied" /\ op' = "submit_click"
         ELSE pc' = "a_submit_js" /\ branch' = branch /\ NoPageOp
    /\ UNCHANGED <<histVars, cfgVars, browserVars, ledgerVars, counterVars, runVars, result,
                   ghostVars, exitKind>>

\* the scripted click in the handler of the bare except
ApplySubmitScript ==
    /\ pc = "a_submit_js"
    /\ \E o \in Outcomes({Timeout, Other}) :
         CASE o = "ok"    -> pc' = "a_save_mem" /\ branch' = "applied"
                             /\ error_count' = error_count /\ op' = "submit_click"
           [] o = Timeout -> pc' = "a_save_mem" /\ branch' = "noconfirm"
                             /\ error_count' = error_count /\ NoPageOp
           [] o = Other   -> ApplyRaise /\ NoPageOp
    /\ RaiseNoted
    /\ UNCHANGED <<runHist, cfgVars, browserVars, ledgerVars, applied_count, skipped_count,
                   runVars, result, ghostVars, exitKind>>

\* _save_applied_vacancy, first statement: self.applied_vacancies.add(vacancy_id)
SaveAppliedAdd ==
    /\ pc = "a_save_mem"
    /\ applied_vacancies' = applied_vacancies \cup {vacancy_id}
    /\ pc' = "a_save_file"
    /\ NoPageOp
    /\ UNCHANGED <<histVars, cfgVars, browserVars, ledgerFile, counterVars, runVars, applyVars,
                   ghostVars, exitKind>>

\* _save_applied_vacancy, the append to the file, then the counter of the branch
SaveAppliedWrite ==
    /\ pc = "a_save_file"
    /\ \E o \in Outcomes({Other}) :
         IF o = "ok"
         THEN /\ ledgerFile' = AppendLine(ledgerFile, vacancy_id)
              /\ IF branch = "marker"
                 THEN skipped_count' = skipped_count + 1 /\ applied_count' = applied_count
                 ELSE applied_count' = applied_count + 1 /\ skipped_count' = skipped_count
              /\ pc' = "a_back"
              /\ UNCHANGED <<branch, error_count>>
         ELSE /\ ApplyRaise
              /\ UNCHANGED <<ledgerFile, applied_count, skipped_count>>
    /\ op' = "save"
    /\ RaiseNoted
    /\ UNCHANGED <<runHist, cfgVars, browserVars, applied_vacancies, runVars, result,
                   ghostVars, exitKind>>

\* the return navigation left out of the first response-form branch
ReturnTargetForgotten(br) == IF br = "resp1" THEN loc ELSE search_page_url

\* the page the return navigation of a branch asks for
ReturnTarget(br) == search_page_url

\* the branch "sent without confirmation" returning False as an error
BranchOutcomeConfirmedOnly(br) ==
    CASE br = "applied" -> "Applied"
      [] br \in {"noconfirm", "nobutton", "handler"} -> "Errored"
      [] OTHER -> "Skipped"

\* what the return statement of each branch stands for: True is Applied;
\* False is Errored after error_count += 1 and Skipped otherwise
BranchOutcome(br) ==
    CASE br \in {"applied", "noconfirm"} -> "Applied"
      [] br \in {"nobutton", "handler"} -> "Errored"
      [] OTHER -> "Skipped"

\* driver.get(search_page_url) at the end of each branch
ApplyBack ==
    /\ pc = "a_back"
    /\ \E o \in Outcomes({Timeout, Other}) :
         IF o = "ok"
         THEN /\ loc' = ReturnTarget(branch)
              /\ retNav' = "ok"
              /\ op' = "return"
              /\ ApplyReturn(BranchOutcome(branch) = "Applied", BranchOutcome(branch))
              /\ UNCHANGED <<branch, error_count>>
         ELSE /\ loc' \in AfterFailedGet(loc, ReturnTarget(branch))
              /\ retNav' = "failed"
              /\ NoPageOp
              /\ CASE branch = "handler" ->
                        \* the failure is logged and the handler returns False
                        /\ ApplyReturn(FALSE, "Errored")
                        /\ UNCHANGED <<branch, error_count>>
                   [] branch = "applied" /\ o = Timeout ->
                        \* caught by "except TimeoutException" of the submission
                        /\ pc' = "a_save_mem" /\ branch' = "noconfirm"
                        /\ UNCHANGED <<error_count, result, outcome>>
                   [] OTHER ->
                        ApplyRaise /\ UNCHANGED <<result, outcome>>
    /\ RaiseNoted
    /\ UNCHANGED <<runHist, cfgVars, driver, quitCount, ledgerVars, applied_count,
                   skipped_count, runVars, interrupted, markerSeen, nApplied, nErrored,
                   appliedIds, recordedIds, exitKind>>

\* ------------------------------------------------- run: after each listing

\* the increment of applications_today left out
CountApplicationNever(n, applied) == n

\* if self._apply_to_vacancy(...): applications_today += 1
CountApplication(n, applied) == IF applied THEN n + 1 ELSE n

\* run takes the result of _apply_to_vacancy, counts it and sleeps
\* (_human_like_delay) before the next listing
AfterApply ==
    /\ pc = "a_return"
    /\ applications_today' = CountApplication(applications_today, result)
    /\ linkIdx' = linkIdx + 1
    /\ pc' = "link_head"
    /\ nApplied' = IF outcome = "Applied" THEN nApplied + 1 ELSE nApplied
    /\ nErrored' = IF outcome = "Errored" THEN nErrored + 1 ELSE nErrored
    /\ appliedIds' = IF outcome = "Applied" THEN appliedIds \cup {vacancy_id}
                     ELSE appliedIds
    /\ recordedIds' = IF outcome = "Applied" \/ (outcome = "Skipped" /\ branch = "marker")
                      THEN recordedIds \cup {vacancy_id}
                      ELSE recordedIds
    /\ branch' = "none" /\ result' = FALSE /\ outcome' = "none" /\ retNav' = "none"
    /\ markerSeen' = FALSE
    /\ ledgerBefore' = <<>> /\ countersBefore' = <<>> /\ raisedAt' = <<>>
    /\ NoPageOp
    /\ UNCHANGED <<ledgerAtStart, searched, loginCalls, loggedIn, login>>
    /\ UNCHANGED <<cfgVars, browserVars, ledgerVars, counterVars, kwIdx, page,
                   vacancy_links, current_search_url, interrupted, exitKind>>

\* the quota check after the listings of a page
PageTail ==
    /\ pc = "page_tail"
    /\ pc' = IF QuotaReachedAfterPage(applications_today, max_applications)
             THEN "kw_tail" ELSE "adv_ensure"
    /\ NoPageOp
    /\ UNCHANGED <<histVars, cfgVars, browserVars, ledgerVars, counterVars, runVars, applyVars,
                   ghostVars, exitKind>>

\* if '/search/vacancy' not in self.driver.current_url: driver.get(current_search_url);
\* any exception ends the keyword
AdvanceEnsure ==
    /\ pc = "adv_ensure"
    /\ IF IsSearchPage(loc.url)
       THEN \E o \in Outcomes({Other}) :
              /\ pc' = IF o = "ok" THEN "adv_next" ELSE "kw_tail"
              /\ loc' = loc
              /\ NoPageOp
       ELSE \E o \in Outcomes({Timeout, Other}) :
              IF o = "ok"
              THEN loc' = current_search_url /\ pc' = "adv_next" /\ op' = "return"
              ELSE /\ loc' \in AfterFailedGet(loc, current_search_url)
                   /\ pc' = "kw_tail"
                   /\ NoPageOp
    /\ UNCHANGED <<histVars, cfgVars, driver, quitCount, ledgerVars, counterVars, runVars,
                   applyVars, ghostVars, exitKind>>

\* the next-page control of the page the browser shows
NextControl(l) ==
    IF l.kind = "search" /\ l.kw \in 1..Len(site) /\ l.page < Len(site[l.kw])
    THEN {"enabled"}
    ELSE {"disabled", NoSuch}

\* the class of the control is not looked at
IsDisabledNever(control) == FALSE

\* the class of the control carries "disabled" or "HH-Pager-Disabled"
IsDisabled(control) == control = "disabled"

\* the next-page control is looked up; absent, disabled or failing ends the
\* keyword, else it is clicked and the new page's URL is saved
AdvancePage ==
    /\ pc = "adv_next"
    /\ \E control \in NextControl(loc) \cup {Other}, click \in Outcomes({Other}),
          read \in Outcomes({Other}) :
         IF control \in {NoSuch, Other} \/ IsDisabled(control) \/ click # "ok"
         THEN /\ pc' = "kw_tail"
              /\ op' = "next_lookup"
              /\ UNCHANGED <<loc, current_search_url>>
         ELSE /\ loc' = NextPageLoc(loc)
              /\ op' = "advance"
              /\ IF read = "ok"
                 THEN current_search_url' = NextPageLoc(loc) /\ pc' = "page_head"
                 ELSE current_search_url' = current_search_url /\ pc' = "kw_tail"
    /\ UNCHANGED <<histVars, cfgVars, driver, quitCount, ledgerVars, counterVars,
                   applications_today, kwIdx, page, vacancy_links, linkIdx,
                   applyVars, ghostVars, exitKind>>

\* end of a keyword: the quota check, else the next keyword
KeywordTail ==
    /\ pc = "kw_tail"
    /\ IF QuotaReached(applications_today, max_applications)
       THEN pc' = "summary" /\ kwIdx' = kwIdx
       ELSE pc' = "kw_head" /\ kwIdx' = kwIdx + 1
    /\ NoPageOp
    /\ UNCHANGED <<histVars, cfgVars, browserVars, ledgerVars, counterVars, applications_today,
                   page, vacancy_links, linkIdx, current_search_url, applyVars,
                   ghostVars, exitKind>>

\* the final statistics; the try block ends
Summary ==
    /\ pc = "summary"
    /\ LeaveRun("normal")
    /\ NoPageOp
    /\ UNCHANGED <<histVars, cfgVars, browserVars, ledgerVars, counterVars, runVars, applyVars,
                   ghostVars>>

\* driver.quit() at the end of the try block instead of in finally
QuitsSessionAtEndOfTry(d, kind) == d # "none" /\ kind = "normal"

\* the quit left out after "except KeyboardInterrupt"
QuitsSessionUnlessInterrupted(d, kind) == d # "none" /\ kind # "interrupt"

\* finally: if self.driver: self.driver.quit()
QuitsSession(d, kind) == d # "none"

Finally ==
    /\ pc = "finally"
    /\ IF QuitsSession(driver, exitKind)
       THEN driver' = "closed" /\ quitCount' = quitCount + 1 /\ op' = "quit"
       ELSE UNCHANGED <<driver, quitCount>> /\ NoPageOp
    /\ pc' = "done"
    /\ UNCHANGED <<histVars, cfgVars, loc, ledgerVars, counterVars, runVars, applyVars,
                   ghostVars, exitKind>>

\* -------------------------------------------------------------- interrupt

\* statements inside a bare "except:", and where control goes when it catches
BareExcept ==
    [login_wait |-> "login_stages", login_stages |-> "login_email", fetch_alt |-> "fetch_alt",
     a_cookie_accept |-> "a_cookie_hide", a_submit_click |-> "a_submit_js"]

\* the positions inside the try block of run
InTry == pc \notin {"finally", "done"}

\* KeyboardInterrupt while the try block of run executes: a bare except
\* swallows it, "except Exception" does not, run's "except KeyboardInterrupt"
\* does
Interrupt ==
    /\ InTry
    /\ interrupted' = TRUE
    /\ \E swallowed \in BOOLEAN :
         IF swallowed
         THEN /\ pc \in DOMAIN BareExcept
              /\ pc' = BareExcept[pc]
              /\ exitKind' = exitKind
         ELSE LeaveRun("interrupt")
    /\ NoPageOp
    /\ UNCHANGED <<histVars, cfgVars, browserVars, ledgerVars, counterVars, runVars, applyVars,
                   outcome, retNav, markerSeen, nApplied, nErrored, appliedIds,
                   recordedIds>>

\* ---------------------------------------------------------- specification

Next ==
    \/ SetupDriver
    \/ LoginOpen
    \/ LoginWait
    \/ LoginShowForm
    \/ LoginFindEmail
    \/ LoginFillEmail
    \/ LoginContinue
    \/ LoginFindPassword
    \/ LoginFillPassword
    \/ LoginSubmit
    \/ LoginClassify
    \/ LoginFailed
    \/ ReadConfig
    \/ KeywordHead
    \/ PageHead
    \/ GetVacancyLinks
    \/ GetVacancyLinksAlt
    \/ LinkHead
    \/ ApplyEntry
    \/ ApplyOpen
    \/ ApplyCheckOpened
    \/ ApplyFindButton
    \/ ApplyMarker
    \/ ApplyClick
    \/ ApplyCheckClicked
    \/ ApplyCookieBanner
    \/ ApplyCookieAccept
    \/ ApplyCookieHide
    \/ ApplyCoverLetter
    \/ ApplyFindSubmit
    \/ ApplySubmitClick
    \/ ApplySubmitScript
    \/ SaveAppliedAdd
    \/ SaveAppliedWrite
    \/ ApplyBack
    \/ AfterApply
    \/ PageTail
    \/ AdvanceEnsure
    \/ AdvancePage
    \/ KeywordTail
    \/ Summary
    \/ Finally
    \/ Interrupt

Spec == Init /\ [][Next]_vars

\* ----------------------------------------------------------------- claims

\* apply has just returned to run
ApplyReturned == pc = "a_return"

\* C1 (as stated): after apply returns, the location is returnLocation on
\* every outcome, also when a page-layer call or the return navigation raises.
C1_AlwaysBackAtReturnLocation ==
    ApplyReturned => loc = current_search_url

\* C1 (amended): when apply returns after a return navigation that did not
\* raise, the location is returnLocation; the Ledger-hit skip navigates
\* nowhere and leaves the location as it was.
C1_BackAtReturnLocationUnlessNavigationFails ==
    [][(pc # "a_return" /\ pc' = "a_return") =>
          IF branch' = "ledger"
          THEN retNav' = "none" /\ loc' = loc
          ELSE /\ retNav' \in {"ok", "failed"}
               /\ retNav' = "ok" => loc' = current_search_url']_vars

\* an exception was handled and the return navigation brought the browser back
C1_Witness ==
    /\ ApplyReturned /\ branch = "handler" /\ outcome = "Errored"
    /\ retNav = "ok" /\ loc = current_search_url

\* outcomes counted so far, the invocation that has just returned included
NumApplied == nApplied + (IF ApplyReturned /\ outcome = "Applied" THEN 1 ELSE 0)
NumErrored == nErrored + (IF ApplyReturned /\ outcome = "Errored" THEN 1 ELSE 0)

\* C2 (as stated): the listings that ended Applied or Errored never number
\* more than max_applications_per_day.
C2_AppliedOrErroredWithinQuota ==
    NumApplied + NumErrored <= max_applications

\* C2 (amended): the listings that ended Applied never number more than
\* max_applications_per_day; Errored attempts are not counted by the quota.
C2_AppliedWithinQuota ==
    NumApplied <= max_applications

\* the quota is used up although attempts also ended Errored
C2_Witness ==
    /\ max_applications > 0 /\ NumApplied = max_applications /\ NumErrored > 0

\* C3: a listing that was applied to once yields Skipped on every later apply,
\* and its identifier is on exactly one line of the Ledger.
C3_AppliedOnceThenSkipped ==
    /\ (ApplyReturned /\ vacancy_id \in appliedIds) => outcome = "Skipped"
    /\ \A id \in appliedIds : Count(id, ledgerFile.lines) = 1

\* C4: every identifier that was applied to, or detected as already applied,
\* is on exactly one line of the persisted Ledger.
C4_RecordedExactlyOnce ==
    \A id \in recordedIds : Count(id, ledgerFile.lines) = 1

\* C5: every identifier of the in-memory Ledger set is in durable storage.
C5_MemoryWithinStorage ==
    \A id \in applied_vacancies : Count(id, ledgerFile.lines) >= 1

\* C6: apply of a listing whose identifier is in the Ledger, with
\* skip-already-applied enabled, returns Skipped without navigation: location,
\* Ledger, applied and error counters unchanged, skipped counter one more.
C6_LedgerHitSkipsWithoutNavigation ==
    [][(/\ pc = "a_entry"
        /\ config.skip_already_applied
        /\ vacancy_id \in applied_vacancies
        /\ exitKind' # "interrupt") =>
          /\ pc' = "a_return" /\ result' = FALSE /\ outcome' = "Skipped"
          /\ loc' = loc /\ op' = "apply"
          /\ ledgerFile' = ledgerFile /\ applied_vacancies' = applied_vacancies
          /\ applied_count' = applied_count /\ error_count' = error_count
          /\ skipped_count' = skipped_count + 1]_vars

\* a Ledger hit has been skipped
C6_Witness ==
    /\ ApplyReturned /\ branch = "ledger" /\ outcome = "Skipped"
    /\ config.skip_already_applied /\ vacancy_id \in applied_vacancies

\* C7: once the session was opened, run ends with the session closed by
\* exactly one quit, on every exit path, and nothing follows the quit.
C7_SessionClosedExactlyOnce ==
    /\ quitCount <= 1
    /\ (pc = "done" /\ driver # "none") => (driver = "closed" /\ quitCount = 1)
    /\ driver = "closed" => (pc = "done" /\ op = "quit")

\* the run was interrupted and has closed its session
C7_Witness ==
    pc = "done" /\ exitKind = "interrupt" /\ driver = "closed" /\ quitCount = 1

\* C8: after an operator interrupt no further listing is processed and no
\* further submission is clicked.
C8_InterruptStopsRun ==
    [][interrupted => op' \notin {"apply", "submit_click"}]_vars

\* C9: applicationsToday never exceeds max_applications_per_day.
C9_QuotaCounterBounded ==
    applications_today <= max_applications

\* the counter has reached a positive quota
C9_Witness ==
    max_applications > 0 /\ applications_today = max_applications

\* C10: once the quota is reached there is no further apply, results-page
\* fetch, page advance or search: only the session is closed.
C10_QuotaStopsRun ==
    [][applications_today >= max_applications =>
          op' \in {"none", "quit", "setup", "login"}]_vars

\* the run ended on the quota with a keyword left unsearched
C10_Witness ==
    /\ pc = "done" /\ exitKind = "normal"
    /\ max_applications > 0 /\ applications_today >= max_applications
    /\ kwIdx < Len(keywords)

\* ---------------------------------------------------------------- C11

\* the positions inside _apply_to_vacancy, before it returns
InApply ==
    pc \in {"a_entry", "a_get", "a_chk1", "a_find", "a_marker", "a_click", "a_chk2",
            "a_cookie", "a_cookie_accept", "a_cookie_hide", "a_cover", "a_submit",
            "a_submit_click", "a_submit_js", "a_save_mem", "a_save_file", "a_back"}

\* the step is not the delivery of a KeyboardInterrupt to run
NotInterruptStep == exitKind' # "interrupt"

\* C11: no exception of the page layer or of the ledger storage leaves
\* _apply_to_vacancy: every step taken inside it stays inside it or returns
\* an outcome to run, run's try block is not left, and after the return run
\* goes to the next listing of the page
C11_NoExceptionEscapesApply ==
    [][/\ (InApply /\ NotInterruptStep) =>
            /\ InApply' \/ (ApplyReturned' /\ outcome' \in {"Applied", "Skipped", "Errored"})
            /\ exitKind' = exitKind
       /\ (ApplyReturned /\ NotInterruptStep) =>
            /\ pc' = "link_head"
            /\ linkIdx' = linkIdx + 1
            /\ exitKind' = exitKind]_vars

\* the ledger write raised after the submission, apply returned Errored, and
\* the page has a further listing
C11_Witness ==
    /\ ApplyReturned /\ branch = "handler" /\ outcome = "Errored"
    /\ op = "return"
    /\ vacancy_id \in applied_vacancies
    /\ \A i \in 1..Len(ledgerFile.lines) : ledgerFile.lines[i] # vacancy_id
    /\ linkIdx < Len(vacancy_links)

\* ---------------------------------------------------------------- C12

\* the ledger, file and set, as it is now
LedgerNow == <<ledgerFile, applied_vacancies>>

\* C12: an apply invocation that changed the ledger (the set in memory or the
\* file) ended Applied or had found the already-applied marker; on every
\* other exit the ledger is as it was when the invocation began
C12_LedgerChangesOnlyOnAppliedOrMarker ==
    (ApplyReturned /\ LedgerNow # ledgerBefore) => (outcome = "Applied" \/ markerSeen)

\* ---------------------------------------------------------------- C13

\* the listings of the first results page of the first keyword
FirstPageListings == CollectLinks(site[1][1], {}, <<>>)

FirstPageIds == {VacancyId(FirstPageListings[i]) : i \in 1..Len(FirstPageListings)}

\* a finished run with one keyword, an empty ledger at the start and a single
\* results page of distinct listings, each of which was processed and ended
\* Skipped on the already-applied marker
MarkerOnlyRun ==
    /\ pc = "done" /\ exitKind = "normal"
    /\ Len(keywords) = 1
    /\ ledgerAtStart.lines = <<>>
    /\ Len(site[1]) = 1
    /\ Cardinality(FirstPageIds) = Len(FirstPageListings)
    /\ recordedIds = FirstPageIds
    /\ appliedIds = {}

\* C13: after a run with one keyword, an empty ledger and a single results
\* page of n distinct listings that all lack the apply control and show the
\* already-applied marker, applied = 0, skipped = n, errors = 0 and the ledger
\* holds exactly the n identifiers, in memory and in the file
C13_MarkerOnlyRunCounts ==
    MarkerOnlyRun =>
        /\ applied_count = 0
        /\ skipped_count = Len(FirstPageListings)
        /\ error_count = 0
        /\ applied_vacancies = FirstPageIds
        /\ Len(ledgerFile.lines) = Len(FirstPageListings)
        /\ {ledgerFile.lines[i] : i \in 1..Len(ledgerFile.lines)} = FirstPageIds

\* the case n = 3
C13_Witness ==
    /\ MarkerOnlyRun
    /\ Len(FirstPageListings) = 3
    /\ skipped_count = 3

\* ---------------------------------------------------------------- C14

\* C14: when the first navigation to a listing lands on a response form (and
\* reading the location does not raise), the check counts one skip and nothing
\* else, the return navigation that follows ends the invocation with Skipped, the ledger, the applied counter and the
\* error counter are as before, and the apply control is neither looked up
\* nor clicked
C14_ResponseFormSkipped ==
    [][/\ (/\ pc = "a_chk1" /\ IsResponseForm(loc.url)
           /\ NotInterruptStep /\ branch' # "handler") =>
            /\ pc' = "a_back" /\ branch' = "resp1"
            /\ skipped_count' = skipped_count + 1
            /\ UNCHANGED <<applied_count, error_count, ledgerVars>>
       /\ (pc = "a_back" /\ branch = "resp1" /\ NotInterruptStep) =>
            /\ ApplyReturned' /\ outcome' = "Skipped" /\ result' = FALSE
            /\ UNCHANGED <<counterVars, ledgerVars>>
            /\ op' \notin {"find_apply", "apply_click"}]_vars

\* ---------------------------------------------------------------- C15

\* the page shows its next-page control disabled, or shows none
NoNextPage == "enabled" \notin NextControl(loc)

\* C15: when the next-page control of the results page is disabled, the page
\* advance ends the keyword without a click (the location stays), and run
\* goes from there to the next keyword or to the end: no results page is
\* fetched for the current keyword any more
C15_DisabledControlEndsKeyword ==
    [][/\ (pc = "adv_next" /\ NoNextPage /\ NotInterruptStep) =>
            /\ pc' = "kw_tail" /\ kwIdx' = kwIdx
            /\ loc' = loc /\ op' = "next_lookup"
       /\ (pc = "kw_tail" /\ NotInterruptStep) =>
            /\ loc' = loc /\ op' = "none"
            /\ \/ pc' = "kw_head" /\ kwIdx' = kwIdx + 1
               \/ pc' = "summary" /\ kwIdx' = kwIdx
       /\ (pc' = "fetch" /\ pc # "fetch") =>
            /\ pc \in {"page_head"}
            /\ loc'.kind = "search" /\ loc'.kw = kwIdx']_vars

\* the last page of the first keyword showed no usable control, the keyword
\* has ended and a further keyword is configured
C15_Witness ==
    /\ pc = "kw_tail" /\ op = "next_lookup"
    /\ "disabled" \in NextControl(loc)
    /\ IsSearchPage(loc.url)
    /\ kwIdx < Len(keywords)
    /\ ~QuotaReached(applications_today, max_applications)

\* ---------------------------------------------------------------- C16

\* C16: the keywords are searched in configured order, each at most once: a
\* search is the search of the keyword after the last one searched; the loop
\* reaches a keyword only from the configuration (the first) or from the end
\* of the previous keyword's pagination with the quota not reached; the
\* pagination of a keyword ends on a page without listings, in the page
\* advance (control absent or disabled, or a failure) or on the quota; and a
\* page without listings ends the keyword with no apply and no page advance
C16_KeywordsInOrder ==
    [][/\ (op' = "search" \/ searched' # searched) =>
            /\ pc = "kw_head"
            /\ kwIdx = Len(searched) + 1 /\ kwIdx \in 1..Len(keywords)
            /\ searched' = Append(searched, kwIdx)
            /\ loc' = SearchLoc(kwIdx, BuildSearchUrl(keywords[kwIdx],
                                                      config.search_filters))
       /\ (pc' = "kw_head") =>
            \/ pc = "config" /\ kwIdx' = 1 /\ searched = <<>>
            \/ /\ pc = "kw_tail" /\ kwIdx' = kwIdx + 1
               /\ ~QuotaReached(applications_today, max_applications)
       /\ (pc' = "kw_tail") =>
            \/ pc \in {"fetch", "fetch_alt"} /\ vacancy_links' = <<>>
            \/ pc \in {"adv_ensure", "adv_next"}
            \/ /\ pc \in {"page_head", "page_tail"}
               /\ QuotaReached(applications_today, max_applications)
       /\ (/\ pc \in {"fetch", "fetch_alt"} /\ pc' # "fetch_alt"
           /\ vacancy_links' = <<>> /\ NotInterruptStep) =>
            /\ pc' = "kw_tail"
            /\ loc' = loc]_vars

\* the second keyword was searched after the first, and its results page had
\* no listings: the keyword has ended
C16_Witness ==
    /\ searched = <<1, 2>>
    /\ pc = "kw_tail" /\ op = "fetch" /\ vacancy_links = <<>>
    /\ loc.kind = "search" /\ loc.kw = 2

\* ---------------------------------------------------------------- C17

\* the positions of run after _login returned True
AfterLogin ==
    pc \in {"config", "kw_head", "page_head", "fetch", "fetch_alt", "link_head",
            "a_return", "page_tail", "adv_ensure", "adv_next", "kw_tail", "summary"}
    \/ InApply

\* nothing was searched and no listing was processed
NothingDone ==
    /\ searched = <<>> /\ kwIdx = 0 /\ page = 0
    /\ vacancy_links = <<>> /\ linkIdx = 0
    /\ applied_count = 0 /\ skipped_count = 0 /\ error_count = 0
    /\ nApplied = 0 /\ nErrored = 0 /\ recordedIds = {}
    /\ ledgerFile = ledgerAtStart
    /\ loc.kind \notin {"search", "vacancy", "response"}

\* C17 as stated: every run that has ended called _login exactly once, before
\* any search or apply; when it returned False nothing was searched or
\* processed and the run ended with the session closed
C17_LoginExactlyOnceInEveryRun ==
    /\ loginCalls <= 1
    /\ pc = "done" => loginCalls = 1
    /\ AfterLogin => (loginCalls = 1 /\ loggedIn = "yes")
    /\ loggedIn = "no" =>
         /\ NothingDone
         /\ pc = "done" => driver = "closed"

\* C17, amended: _login is called at most once; a run that ended without
\* calling it ended in the set-up of the session (an exception or an
\* interrupt) with nothing searched or processed; otherwise it is called
\* exactly once before any search or apply, and until it has returned True
\* nothing is searched or processed; when it returned False the run has left
\* its try block and ends with the session closed
C17_LoginOnceBeforeAnything ==
    /\ loginCalls <= 1
    /\ loggedIn # "none" => loginCalls = 1
    /\ (pc = "done" /\ loginCalls = 0) =>
         (exitKind \in {"exception", "interrupt"} /\ loggedIn = "none")
    /\ AfterLogin => loggedIn = "yes"
    /\ loggedIn # "yes" => NothingDone
    /\ loggedIn = "no" =>
         /\ pc \in {"finally", "done"}
         /\ exitKind \in {"auth_failed"}
         /\ pc = "done" => (driver = "closed" /\ quitCount = 1)

\* _login returned False and the run has ended
C17_Witness ==
    /\ loggedIn = "no" /\ loginCalls = 1
    /\ pc = "done" /\ exitKind = "auth_failed"
    /\ driver = "closed"

\* ------------------------------------- _get_vacancy_links on its own

MaxCards == 3

\* hrefs a card of a results page can carry
CardHrefs == {H1, H1q, H1r, R2, H2, Emp, NoHref}

\* the sequences over S of length at most n
SeqsUpTo(S, n) == UNION {[1..k -> S] : k \in 0..n}

\* run has searched its only keyword and is about to enumerate the listings of
\* the results page, which shows any cards
InitLinks ==
    /\ pc = "fetch"
    /\ config = [skip_already_applied |-> TRUE, max_applications_per_day |-> 1,
                 search_filters |-> Filters(<<Python>>)]
    /\ site \in {<< <<cards>> >> : cards \in SeqsUpTo(CardHrefs, MaxCards)}
    /\ driver = "open" /\ quitCount = 0
    /\ loc = SearchLoc(1, BuildSearchUrl(Python, config.search_filters))
    /\ ledgerFile = AbsentLedger /\ applied_vacancies = {}
    /\ applied_count = 0 /\ skipped_count = 0 /\ error_count = 0
    /\ applications_today = 0 /\ kwIdx = 1 /\ page = 1
    /\ vacancy_links = <<>> /\ linkIdx = 0 /\ current_search_url = BlankLoc
    /\ branch = "none" /\ result = FALSE
    /\ op = "none" /\ interrupted = FALSE /\ outcome = "none" /\ retNav = "none"
    /\ markerSeen = FALSE
    /\ nApplied = 0 /\ nErrored = 0 /\ appliedIds = {} /\ recordedIds = {}
    /\ exitKind = "none"
    /\ ledgerAtStart = ledgerFile /\ ledgerBefore = <<>>
    /\ countersBefore = <<>> /\ raisedAt = <<>>
    /\ searched = <<1>> /\ loginCalls = 1 /\ loggedIn = "yes"
    /\ login = LoginNone

NextLinks ==
    \/ GetVacancyLinks
    \/ GetVacancyLinksAlt

SpecLinks == InitLinks /\ [][NextLinks]_vars

\* ---------------------------------------------------------------- C18

\* the href is that of a listing
IsListingHref(h) ==
    \E i \in 1..(Len(h) - 2) : h[i] = "/" /\ h[i + 1] = "vacancy" /\ h[i + 2] = "/"

\* the URL up to its query string
WithoutQuery(u) ==
    IF \E i \in 1..Len(u) : u[i] = "?"
    THEN SubSeq(u, 1, (CHOOSE i \in 1..Len(u) :
                          u[i] = "?" /\ \A j \in 1..(i - 1) : u[j] # "?") - 1)
    ELSE u

\* the normalized URL of a listing href: a relative path resolved against the
\* site, the query string stripped
NormalizedListingUrl(h) == WithoutQuery(IF h[1] = "/" THEN Base \o h ELSE h)

\* the first card of the page whose href normalizes to u
FirstCard(hs, u) ==
    CHOOSE k \in 1..Len(hs) :
        /\ IsListingHref(hs[k]) /\ NormalizedListingUrl(hs[k]) = u
        /\ \A j \in 1..(k - 1) :
              ~(IsListingHref(hs[j]) /\ NormalizedListingUrl(hs[j]) = u)

NoDuplicates(r) == \A i, j \in 1..Len(r) : i # j => r[i] # r[j]

\* r lists the normalized URLs of the listing hrefs of hs, each once, in the
\* order of their first occurrence
ListsOnceInFirstSeenOrder(r, hs) ==
    /\ NoDuplicates(r)
    /\ {r[i] : i \in 1..Len(r)} =
          {NormalizedListingUrl(hs[k]) : k \in {n \in 1..Len(hs) : IsListingHref(hs[n])}}
    /\ \A i, j \in 1..Len(r) : i < j => FirstCard(hs, r[i]) < FirstCard(hs, r[j])

\* C18: for every page, the enumeration of its cards returns the normalized
\* URL (relative path resolved, query stripped) of each listing href once, in
\* first-seen order, and the empty sequence when the page has no listing
\* link; the list run receives never holds a URL twice, holds only normalized
\* URLs of the page's listing hrefs, and an empty list ends the keyword
\* without an error
C18_ListedOnceInFirstSeenOrder ==
    LET hs == PageHrefs(loc)
    IN  /\ ListsOnceInFirstSeenOrder(CollectLinks(hs, {}, <<>>), hs)
        /\ (\A k \in 1..Len(hs) : ~IsListingHref(hs[k])) =>
              CollectLinks(hs, {}, <<>>) = <<>>
        /\ (pc \in {"link_head", "kw_tail"} /\ op = "fetch") =>
              /\ NoDuplicates(vacancy_links)
              /\ \A i \in 1..Len(vacancy_links) :
                    \E k \in 1..Len(hs) : /\ IsListingHref(hs[k])
                                           /\ vacancy_links[i] = NormalizedListingUrl(hs[k])
              /\ vacancy_links = <<>> => (pc = "kw_tail" /\ exitKind = "none")

\* a page showing the same listing with a query, a second listing by a
\* relative href, and the first listing again without the query
C18_Witness ==
    /\ pc = "link_head" /\ op = "fetch"
    /\ PageHrefs(loc) = <<H1q, R2, H1>>
    /\ vacancy_links = <<H1, H2>>

\* --------------------------------------- _build_search_url on its own

\* search_filters of config.json: each filter unset, a recognized value or an
\* unrecognized one; the first keyword may be the empty string
UrlFilters ==
    [keywords   : {<<Python>>, <<BackendDeveloper>>, << <<>> >>, << <<>>, Python >>},
     salary_min : {0, 100000},
     area       : {Unset, <<"Moskva">>, <<"Sankt-Peterburg">>, <<"Kazan">>},
     experience : {Unset, <<"between1And3">>, <<"senior">>},
     employment : {Unset, <<"full">>, <<"any">>},
     schedule   : {Unset, <<"remote">>, <<"office">>}]

\* run is logged in and about to search its first keyword
InitUrl ==
    /\ pc = "kw_head"
    /\ config \in {[skip_already_applied |-> TRUE, max_applications_per_day |-> 1,
                     search_filters |-> f] : f \in UrlFilters}
    /\ site = SiteA
    /\ driver = "open" /\ quitCount = 0 /\ loc = HomeLoc
    /\ ledgerFile = AbsentLedger /\ applied_vacancies = {}
    /\ applied_count = 0 /\ skipped_count = 0 /\ error_count = 0
    /\ applications_today = 0 /\ kwIdx = 1 /\ page = 0
    /\ vacancy_links = <<>> /\ linkIdx = 0 /\ current_search_url = BlankLoc
    /\ branch = "none" /\ result = FALSE
    /\ op = "none" /\ interrupted = FALSE /\ outcome = "none" /\ retNav = "none"
    /\ markerSeen = FALSE
    /\ nApplied = 0 /\ nErrored = 0 /\ appliedIds = {} /\ recordedIds = {}
    /\ exitKind = "none"
    /\ ledgerAtStart = ledgerFile /\ ledgerBefore = <<>>
    /\ countersBefore = <<>> /\ raisedAt = <<>>
    /\ searched = <<>> /\ loginCalls = 1 /\ loggedIn = "yes"
    /\ login = LoginNone

NextUrl == KeywordHead

SpecUrl == InitUrl /\ [][NextUrl]_vars

\* the query string of a URL: what follows the first "?"
QueryOf(url) ==
    IF \E i \in 1..Len(url) : url[i] = "?"
    THEN SubSeq(url, (CHOOSE i \in 1..Len(url) :
                         url[i] = "?" /\ \A j \in 1..(i - 1) : url[j] # "?") + 1,
                Len(url))
    ELSE <<>>

\* its parameters, each <<key, "=", value...>>
ParamsOf(url) == IF QueryOf(url) = <<>> THEN <<>> ELSE Split(QueryOf(url), "&")

\* the keys of the parameters
KeysOf(url) == {ParamsOf(url)[i][1] : i \in 1..Len(ParamsOf(url))}

\* the value of the parameter key
ValueOf(url, key) ==
    LET p == ParamsOf(url)[CHOOSE i \in 1..Len(ParamsOf(url)) : ParamsOf(url)[i][1] = key]
    IN  SubSeq(p, 3, Len(p))

\* the URL run builds for the keyword it is about to search
search_url == BuildSearchUrl(keywords[1], config.search_filters)

\* the filters left unset contribute no parameter
UnsetFiltersAbsent(url, filters) ==
    /\ filters.salary_min = 0    => "salary" \notin KeysOf(url)
    /\ filters.area = Unset       => "area" \notin KeysOf(url)
    /\ filters.experience = Unset => "experience" \notin KeysOf(url)
    /\ filters.employment = Unset => "employment" \notin KeysOf(url)
    /\ filters.schedule = Unset   => "schedule" \notin KeysOf(url)

\* ---------------------------------------------------------------- C19

FilterKeys == {"salary", "area", "experience", "employment", "schedule"}

RecognizedAreas == {<<"Moskva">>, <<"Sankt-Peterburg">>}

\* the code the region defaults to
DefaultArea == <<"1">>

\* no filter but the region receives a default: unset or unrecognized, it
\* contributes no parameter; recognized, it contributes its own value
NoOtherDefault(url, filters) ==
    /\ "salary" \in KeysOf(url) <=> filters.salary_min # 0
    /\ "salary" \in KeysOf(url) =>
         ValueOf(url, "salary") = <<ToString(filters.salary_min)>>
    /\ "experience" \in KeysOf(url) <=> filters.experience \in exp_map
    /\ "experience" \in KeysOf(url) => ValueOf(url, "experience") = filters.experience
    /\ "employment" \in KeysOf(url) <=> filters.employment \in employment_map
    /\ "employment" \in KeysOf(url) => ValueOf(url, "employment") = filters.employment
    /\ "schedule" \in KeysOf(url) <=> filters.schedule \in schedule_map
    /\ "schedule" \in KeysOf(url) => ValueOf(url, "schedule") = filters.schedule

\* C20 as stated: when the configured region is unset or not recognized the
\* query carries the region parameter with the default code, and no other
\* filter receives a default
C20_RegionDefaultsWhenUnsetOrUnknown ==
    LET filters == config.search_filters
    IN  /\ filters.area \notin RecognizedAreas =>
              /\ "area" \in KeysOf(search_url)
              /\ ValueOf(search_url, "area") = DefaultArea
        /\ NoOtherDefault(search_url, filters)

\* C20, amended: when the configured region is set but not recognized the
\* query carries the region parameter with the default code; when it is unset
\* the query carries no region parameter; a recognized region carries its
\* own code; no other filter receives a default
C20_RegionDefaultsWhenUnknown ==
    LET filters == config.search_filters
    IN  /\ "area" \in KeysOf(search_url) <=> filters.area # Unset
        /\ (filters.area # Unset /\ filters.area \notin RecognizedAreas) =>
              ValueOf(search_url, "area") = DefaultArea
        /\ filters.area = <<"Moskva">> => ValueOf(search_url, "area") = <<"1">>
        /\ filters.area = <<"Sankt-Peterburg">> => ValueOf(search_url, "area") = <<"2">>
        /\ NoOtherDefault(search_url, filters)
        /\ op = "search" => loc.url = search_url

\* a search with a region the code does not recognize and the other filters
\* unset or unrecognized
C20_Witness ==
    /\ op = "search" /\ pc = "page_head"
    /\ config.search_filters.area = <<"Kazan">>
    /\ config.search_filters.salary_min = 0
    /\ config.search_filters.experience = <<"senior">>
    /\ config.search_filters.employment = Unset
    /\ config.search_filters.schedule = Unset
    /\ KeysOf(loc.url) = {"text", "area"}
    /\ ValueOf(loc.url, "area") = <<"1">>

\* ---------------------------------------------------------------- C21

\* C21: an experience, employment or schedule value that is not a recognized
\* one is dropped: the URL is built (and navigated to), the parameter of that
\* filter is absent, and the URL is the one built with that filter unset
C21_UnknownEnumDropped ==
    LET filters == config.search_filters
    IN  /\ (filters.experience # Unset /\ filters.experience \notin exp_map) =>
              /\ "experience" \notin KeysOf(search_url)
              /\ search_url = BuildSearchUrl(keywords[1],
                                             [filters EXCEPT !.experience = Unset])
        /\ (filters.employment # Unset /\ filters.employment \notin employment_map) =>
              /\ "employment" \notin KeysOf(search_url)
              /\ search_url = BuildSearchUrl(keywords[1],
                                             [filters EXCEPT !.employment = Unset])
        /\ (filters.schedule # Unset /\ filters.schedule \notin schedule_map) =>
              /\ "schedule" \notin KeysOf(search_url)
              /\ search_url = BuildSearchUrl(keywords[1],
                                             [filters EXCEPT !.schedule = Unset])
        /\ op = "search" => loc.url = search_url

\* a search with all three filters set to values that are not recognized
C21_Witness ==
    /\ op = "search" /\ pc = "page_head"
    /\ config.search_filters.experience = <<"senior">>
    /\ config.search_filters.employment = <<"any">>
    /\ config.search_filters.schedule = <<"office">>
    /\ config.search_filters.area = <<"Moskva">>
    /\ config.search_filters.salary_min # 0
    /\ KeysOf(loc.url) = {"text", "salary", "area"}

\* ---------------------------------------------------------------- C22

\* C22: when no keywords are configured, nothing is searched and no listing
\* is processed: run never enters the loop over the keywords, it returns at
\* the check of the keyword list, and it ends with no session left open
C22_NoKeywordsNoSearch ==
    keywords = <<>> =>
        /\ NothingDone
        /\ ~InApply
        /\ pc \in {"setup", "login_open", "login_wait", "login_stages",
                    "login_email", "login_email_fill", "login_continue",
                    "login_password", "login_password_fill", "login_submit",
                    "login_classify", "login_failed", "config", "finally", "done"}
        /\ op \notin {"search", "fetch", "apply", "open_listing", "advance"}
        /\ exitKind # "normal"
        /\ (pc \in {"finally", "done"} /\ loggedIn = "yes" /\ ~interrupted) =>
             exitKind = "no_keywords"
        /\ pc = "done" => driver # "open"
        /\ (pc = "done" /\ exitKind = "no_keywords") =>
             (driver = "closed" /\ quitCount = 1)

\* a run without keywords has logged in, returned at the keyword check and
\* closed the session
C22_Witness ==
    /\ keywords = <<>>
    /\ pc = "done" /\ exitKind = "no_keywords"
    /\ loggedIn = "yes" /\ driver = "closed" /\ searched = <<>>

\* ------------------------------------------------ construction and main

\* config.json is absent, or is not a JSON document
MissingDocument == [raises |-> "FileNotFoundError"]
MalformedDocument == [raises |-> "JSONDecodeError"]

\* main is about to construct HHAutoApply: config.json holds a configuration,
\* is missing or is malformed; nothing is loaded yet
InitStartup ==
    /\ pc = "construct"
    /\ config \in Configs \cup {MissingDocument, MalformedDocument}
    /\ site \in Sites
    /\ driver = "none" /\ loc = BlankLoc /\ quitCount = 0
    /\ ledgerFile \in InitialLedgers
    /\ applied_vacancies = {}
    /\ applied_count = 0 /\ skipped_count = 0 /\ error_count = 0
    /\ applications_today = 0 /\ kwIdx = 0 /\ page = 0
    /\ vacancy_links = <<>> /\ linkIdx = 0 /\ current_search_url = BlankLoc
    /\ branch = "none" /\ result = FALSE
    /\ op = "none" /\ interrupted = FALSE /\ outcome = "none" /\ retNav = "none"
    /\ markerSeen = FALSE
    /\ nApplied = 0 /\ nErrored = 0 /\ appliedIds = {} /\ recordedIds = {}
    /\ exitKind = "none"
    /\ ledgerAtStart = ledgerFile /\ ledgerBefore = <<>>
    /\ countersBefore = <<>> /\ raisedAt = <<>>
    /\ searched = <<>> /\ loginCalls = 0 /\ loggedIn = "none"
    /\ login = LoginNone

\* _load_config that returns an empty configuration instead of raising
LoadConfigLenient ==
    /\ pc = "construct"
    /\ pc' = "load_ledger"
    /\ NoPageOp
    /\ UNCHANGED <<histVars, cfgVars, browserVars, ledgerVars, counterVars, runVars,
                   applyVars, ghostVars, exitKind>>

\* __init__, first statement: _load_config re-raises FileNotFoundError and
\* JSONDecodeError; the exception leaves __init__ and is logged by main
LoadConfig ==
    /\ pc = "construct"
    /\ pc' = IF config \in {MissingDocument, MalformedDocument}
             THEN "aborted" ELSE "load_ledger"
    /\ NoPageOp
    /\ UNCHANGED <<histVars, cfgVars, browserVars, ledgerVars, counterVars, runVars,
                   applyVars, ghostVars, exitKind>>

\* __init__, last statement: _load_applied_vacancies; then main calls run
LoadLedger ==
    /\ pc = "load_ledger"
    /\ \E o \in Outcomes({Other}) :
         IF o = "ok"
         THEN /\ applied_vacancies' = LoadAppliedVacancies(ledgerFile)
              /\ pc' = "setup"
         ELSE /\ applied_vacancies' = applied_vacancies
              /\ pc' = "aborted"
    /\ NoPageOp
    /\ UNCHANGED <<histVars, cfgVars, browserVars, ledgerFile, counterVars, runVars,
                   applyVars, ghostVars, exitKind>>

NextStartup ==
    \/ LoadConfig
    \/ LoadLedger
    \/ SetupDriver
    \/ LoginOpen

SpecStartup == InitStartup /\ [][NextStartup]_vars

\* ---------------------------------------------------------------- C23

\* C23: with config.json missing or malformed, construction fails at its
\* first statement: the ledger is never loaded, no session is opened, _login
\* is never called and nothing is searched or processed
C23_BadConfigurationIsFatal ==
    config \in {MissingDocument, MalformedDocument} =>
        /\ pc \in {"construct", "aborted"}
        /\ applied_vacancies = {}
        /\ driver = "none" /\ quitCount = 0 /\ loc = BlankLoc
        /\ loginCalls = 0 /\ loggedIn = "none"
        /\ searched = <<>> /\ vacancy_links = <<>>
        /\ applied_count = 0 /\ skipped_count = 0 /\ error_count = 0
        /\ ledgerFile = ledgerAtStart

\* construction has failed on a malformed document while the ledger file of
\* an earlier run was there to load
C23_Witness ==
    /\ config = MalformedDocument
    /\ pc = "aborted"
    /\ ledgerFile.exists /\ ledgerFile.lines # <<>>
    /\ applied_vacancies = {}
    /\ driver = "none"

\* ---------------------------------------------------------------- C24

\* the steps of _apply_to_vacancy from driver.get(vacancy_url) to the click
\* on the submission control, with the branches that return before it:
\* <<pc, branch>> of a step
BeforeSubmission(at) ==
    \/ at[1] \in {"a_get", "a_chk1", "a_find", "a_marker", "a_click", "a_chk2",
                  "a_cookie", "a_cookie_accept", "a_cookie_hide", "a_cover",
                  "a_submit", "a_submit_click", "a_submit_js"}
    \/ at[1] \in {"a_save_mem", "a_save_file"} /\ at[2] = "marker"
    \/ at[1] = "a_back" /\ at[2] \in {"resp1", "resp2", "marker", "nobutton"}

\* a step in which the page layer raised and the exception was caught inside
\* the steps: the submission control timed out, the direct click on it failed,
\* the click on the banner's accept button failed
AbsorbedStep ==
    \/ pc \in {"a_submit", "a_submit_js"} /\ branch' = "noconfirm"
    \/ pc = "a_submit_click" /\ pc' = "a_submit_js"
    \/ pc = "a_cookie_accept" /\ pc' = "a_cookie_hide"

\* a step in which an exception entered "except Exception"
HandlerStep == branch' = "handler" /\ branch # "handler"

C25_UnconfirmedSubmissionApplied ==
    [][/\ (pc = "a_save_file" /\ branch = "noconfirm" /\ NotInterruptStep) =>
            /\ pc' = "a_back" /\ branch' = "noconfirm"
            /\ vacancy_id \in applied_vacancies'
            /\ ledgerFile' = AppendLine(ledgerFile, vacancy_id)
            /\ applied_count' = applied_count + 1
            /\ UNCHANGED <<skipped_count, error_count>>
       /\ (pc = "a_back" /\ branch = "noconfirm" /\ NotInterruptStep) =>
            /\ ApplyReturned' /\ outcome' = "Applied" /\ result' = TRUE
            /\ loc' = search_page_url
            /\ UNCHANGED <<counterVars, ledgerVars>>]_vars

\* ---------------------------------------------------------------- C26

\* C26 as stated: an invocation that ends in the branch of the missing
\* submission control has returned Errored, with one more error and nothing
\* counted as applied
C26_MissingSubmissionControlErrored ==
    (ApplyReturned /\ branch = "noconfirm") =>
        /\ outcome = "Errored"
        /\ error_count = countersBefore[3] + 1
        /\ applied_count = countersBefore[1]

\* C26 amended: the wait for the submission control timing out counts no
\* error and enters the branch that records the listing as applied; in that
\* branch the error counter grows, by one, only with an exception of the
\* ledger write or of the return navigation, and otherwise the invocation
\* returns Applied with the listing counted; the run then goes on with the
\* next listing
C26_MissingSubmissionControlApplied ==
    [][/\ (pc = "a_submit" /\ pc' = "a_save_mem") =>
            /\ branch' = "noconfirm"
            /\ UNCHANGED <<counterVars, ledgerVars>>
       /\ (branch = "noconfirm" /\ InApply /\ NotInterruptStep) =>
            \/ /\ HandlerStep
               /\ error_count' = error_count + 1
               /\ ~ApplyReturned'
            \/ /\ branch' = "noconfirm"
               /\ error_count' = error_count
               /\ ApplyReturned' =>
                    /\ outcome' = "Applied" /\ result' = TRUE
                    /\ applied_count' > countersBefore[1]
                    /\ vacancy_id \in applied_vacancies'
       /\ (ApplyReturned /\ NotInterruptStep) =>
            /\ pc' = "link_head"
            /\ linkIdx' = linkIdx + 1]_vars

\* the invocation went through the branch of the missing submission control
\* and returned Applied: one more application, no error
C26_Witness ==
    /\ ApplyReturned
    /\ branch = "noconfirm"
    /\ outcome = "Applied"
    /\ applied_count = countersBefore[1] + 1
    /\ error_count = countersBefore[3]

\* ---------------------------------------------------------------- C27

\* the invocation found neither an apply control nor the already-applied
\* marker
NoControlNoMarker ==
    branch = "nobutton" \/ (raisedAt # <<>> /\ raisedAt[2] = "nobutton")

\* C27: an invocation that found neither the apply control nor the marker
\* returns Errored on the result page with one more error and the other
\* counters and the ledger as before; one that found the marker has the
\* identifier in the ledger and returns Skipped with the error counter as
\* before
C27_MissingApplyControl ==
    ApplyReturned =>
        /\ NoControlNoMarker =>
             /\ outcome = "Errored"
             /\ error_count = countersBefore[3] + 1
             /\ skipped_count = countersBefore[2]
             /\ applied_count = countersBefore[1]
             /\ LedgerNow = ledgerBefore
             /\ loc = search_page_url
        /\ markerSeen =>
             /\ vacancy_id \in applied_vacancies
             /\ Count(vacancy_id, ledgerFile.lines) >= 1
             /\ outcome = "Skipped"
             /\ error_count = countersBefore[3]

\* ---------------------------------------------------------------- C28

\* C28: no step of the banner dismissal (lookup and visibility check, click
\* on the accept button, scripted hide) enters the error handler or moves a
\* counter: each goes on within the dismissal or to the cover letter
C28_BannerFailureSwallowed ==
    [][(pc \in {"a_cookie", "a_cookie_accept", "a_cookie_hide"}
          /\ NotInterruptStep) =>
         /\ ~HandlerStep
         /\ pc' \in {"a_cookie_accept", "a_cookie_hide", "a_cover"}
         /\ UNCHANGED <<counterVars, ledgerVars>>]_vars

\* ---------------------------------------------------------------- C29

\* the counters <<applied, skipped, error>> with one added for an outcome
CountedOnce(before, how) ==
    <<before[1] + (IF how = "Applied" THEN 1 ELSE 0),
      before[2] + (IF how = "Skipped" THEN 1 ELSE 0),
      before[3] + (IF how = "Errored" THEN 1 ELSE 0)>>

\* C29: when an invocation returns, exactly the counter of its outcome has
\* grown, by one, since the invocation began
C29_OneCounterPerInvocation ==
    ApplyReturned =>
        <<applied_count, skipped_count, error_count>>
            = CountedOnce(countersBefore, outcome)

\* ---------------------------------------------------------------- C30

\* run is between two listings, or past the last one and before the summary
BetweenListings ==
    pc \in {"link_head", "page_tail", "adv_ensure", "adv_next", "kw_tail",
            "summary"}

\* C30: between listings the quota counter of run equals the applied counter
\* of the summary, and both equal the number of invocations that returned
\* Applied
C30_QuotaEqualsApplied ==
    BetweenListings =>
        /\ applications_today = applied_count
        /\ applications_today = nApplied

\* ---------------------------------------------------------------- C31

\* C31: the next-page control is looked up, and clicked, only on a page of
\* search results; when the browser is elsewhere after the listings of a
\* page, run either navigates to the current result page first or ends the
\* keyword without looking the control up
C31_NextPageOnlyOnResultPage ==
    [][/\ op' \in {"next_lookup", "advance"} =>
            /\ pc = "adv_next"
            /\ loc.kind = "search"
            /\ Contains(loc.url, <<"/", "search", "/", "vacancy">>)
       /\ (pc = "adv_ensure" /\ loc.kind # "search" /\ NotInterruptStep) =>
            \/ pc' = "adv_next" /\ loc' = current_search_url
                                /\ loc'.kind = "search"
            \/ pc' = "kw_tail" /\ op' # "next_lookup"]_vars

\* the return navigation of the last listing failed and left the browser on
\* the listing; run has navigated back to the result page and is about to
\* look up the next-page control
C31_Witness ==
    /\ pc = "adv_next"
    /\ op = "return"
    /\ loc = current_search_url
    /\ loc.kind = "search"

\* ------------------------------------- _apply_to_vacancy on one listing URL

\* a listing URL whose query string holds a "/"
H1s == H1 \o <<"?", "from", "=", "/", "search">>

ListingUrls == {H1, H1q, H1r, H1s, H2, H3, S3}

\* run is about to call _apply_to_vacancy with one listing URL on a result page
InitId ==
    /\ pc = "a_entry"
    /\ config \in {c \in Configs : c.search_filters.keywords = <<Python>>}
    /\ site = SiteA
    /\ driver = "open" /\ quitCount = 0
    /\ loc = SearchLoc(1, BuildSearchUrl(Python, config.search_filters))
    /\ ledgerFile \in InitialLedgers
    /\ applied_vacancies = LoadAppliedVacancies(ledgerFile)
    /\ applied_count = 0 /\ skipped_count = 0 /\ error_count = 0
    /\ applications_today = 0 /\ kwIdx = 1 /\ page = 1
    /\ vacancy_links \in {<<u>> : u \in ListingUrls}
    /\ linkIdx = 1 /\ current_search_url = loc
    /\ branch = "none" /\ result = FALSE
    /\ op = "none" /\ interrupted = FALSE /\ outcome = "none" /\ retNav = "none"
    /\ markerSeen = FALSE
    /\ nApplied = 0 /\ nErrored = 0 /\ appliedIds = {} /\ recordedIds = {}
    /\ exitKind = "none"
    /\ ledgerAtStart = ledgerFile /\ ledgerBefore = <<>>
    /\ countersBefore = <<>> /\ raisedAt = <<>>
    /\ searched = <<1>> /\ loginCalls = 1 /\ loggedIn = "yes"
    /\ login = LoginNone

NextId == ApplyEntry

SpecId == InitId /\ [][NextId]_vars

\* ---------------------------------------------------------------- C32

\* the last segment of the path of a URL: the query is removed first
LastPathSegment(url) == Last(Split(Split(url, "?")[1], "/"))

C33_ReloadYieldsTheSetInMemory ==
    /\ pc = "done" => LoadAppliedVacancies(ledgerFile) = applied_vacancies
    /\ ~ledgerFile.exists => LoadAppliedVacancies(ledgerFile) = {}

\* ---------------------------------------------------------------- C34

\* _login submitted the form and returned from the classification of the
\* page, none of whose lookups raised
Classified ==
    /\ loggedIn # "none"
    /\ login.did \cap {"submit", "enter_password"} # {}
    /\ "manual" \notin login.asked

\* the browser has left the login page, and the page shows the menu of the
\* applicant or is a page of hh.ru
LeftLoginPage ==
    /\ ~Contains(loc.url, <<"login">>)
    /\ login.menu \/ Contains(loc.url, <<"hh.ru">>)

\* C34: after the classification, a location off the login page with the
\* applicant's menu or on the site's domain means success with no prompt,
\* even with a captcha on the page; the pause of the captcha was taken only
\* without that and with a captcha; the yes/no question was asked only
\* without that and without a captcha
C34_ClassificationPriority ==
    Classified =>
        /\ LeftLoginPage => (loggedIn = "yes" /\ login.asked = {})
        /\ "pause" \in login.asked => (~LeftLoginPage /\ login.captcha)
        /\ "yesno" \in login.asked => (~LeftLoginPage /\ ~login.captcha)
        /\ ~LeftLoginPage => login.asked # {}

\* the form was submitted, the browser is on the site's home page with a
\* captcha-like element, and _login returned True without a prompt
C34_Witness ==
    /\ Classified
    /\ loc = HomeLoc
    /\ login.captcha /\ ~login.menu
    /\ loggedIn = "yes"
    /\ login.asked = {}

\* ---------------------------------------------------------------- C35

\* C35: when the e-mail field or the password field was not found, _login
\* asked the operator to press Enter and returned True; no stage after the
\* missing field was carried out: with the e-mail field missing nothing was
\* entered or clicked, with the password field missing no password was
\* entered and no submission was made
C35_MissingFieldPausesAndSucceeds ==
    login.missing \in {"email", "password"} =>
        /\ loggedIn = "yes"
        /\ login.asked = {"pause"}
        /\ exitKind \notin {"auth_failed", "exception"}
        /\ login.missing = "email" => (login.did = {} /\ login.clicked = <<>>)
        /\ login.missing = "password" =>
             login.did \cap {"password", "submit", "enter_password"} = {}

\* the e-mail was entered and the form continued, the password field was not
\* found, and _login has returned True to run after the pause
C35_Witness ==
    /\ login.missing = "password"
    /\ "email" \in login.did
    /\ login.asked = {"pause"}
    /\ loggedIn = "yes"
    /\ pc = "config"

\* ---------------------------------------------------------------- C36

\* the label of the button is "next" and the button is not the one that
\* continues with the password
MeansNext(btn) == btn.text = TextNext /\ btn.qa # QaPassword

\* the buttons the page showed when the e-mail was entered
ControlsShown == {login.controls[i] : i \in 1..Len(login.controls)}

\* stage 6 of _login is over
Continued == login.did \cap {"continue", "enter_email"} # {}

\* C36: once past the continue stage, the button that was clicked, if any,
\* is a displayed button of the page that is not a "next" button; when
\* every displayed button of the page was a "next" button, and whenever no
\* button was clicked, Enter was sent to the e-mail field instead
C36_NextNeverClicked ==
    Continued =>
        /\ login.clicked # <<>> =>
             /\ login.clicked[1] \in ControlsShown
             /\ login.clicked[1].shown
             /\ ~MeansNext(login.clicked[1])
             /\ "continue" \in login.did /\ "enter_email" \notin login.did
        /\ login.clicked = <<>> =>
             ("enter_email" \in login.did /\ "continue" \notin login.did)
        /\ (\A b \in ControlsShown : ~b.shown \/ MeansNext(b)) =>
             login.clicked = <<>>

\* the page showed a "next" submit button and a hidden password button:
\* nothing was clicked and Enter was sent to the e-mail field
C36_Witness ==
    /\ login.controls = <<HiddenPasswordButton, NextSubmit>>
    /\ login.clicked = <<>>
    /\ "enter_email" \in login.did
    /\ pc = "login_password"

\* ---------------------------------------------------------------- C37

\* the positions inside _login
LoginPcs ==
    {"login_open", "login_wait", "login_stages", "login_email", "login_email_fill",
     "login_continue", "login_password", "login_password_fill", "login_submit",
     "login_classify", "login_failed"}

\* the operator confirms: y, yes or da, in any case
Confirms(user_input) == user_input \in {<<"y">>, <<"Y">>, <<"yes">>, <<"da">>}

\* C37 as stated: whenever an exception was raised at a stage of _login, handled
\* on the spot or not, the operator was asked the manual-login question and
\* _login returned True exactly on a confirmation
C37_EveryExceptionAsksOperator ==
    (loggedIn # "none" /\ login.raised # {}) =>
        /\ "manual" \in login.asked
        /\ loggedIn = "yes" <=> Confirms(login.answer)

\* C37, amended: no step of _login other than the operator's interrupt leaves
\* run with an exception; an exception that no stage handles on the spot
\* leads to the handler of _login, which asks the manual-login question and
\* returns True exactly on a confirmation; without such an exception that
\* question is not asked
C37_UnhandledExceptionAsksOperator ==
    [][NotInterruptStep =>
         /\ pc \in LoginPcs => exitKind' # "exception"
         /\ ("unhandled" \in login'.raised /\ "unhandled" \notin login.raised) =>
              (pc \in LoginPcs /\ pc' = "login_failed" /\ loggedIn' = loggedIn)
         /\ pc = "login_failed" =>
              /\ "unhandled" \in login.raised
              /\ "manual" \in login'.asked
              /\ loggedIn' = IF Confirms(login'.answer) THEN "yes" ELSE "no"
              /\ pc' = IF Confirms(login'.answer) THEN "config" ELSE "finally"
         /\ "manual" \in login'.asked => "unhandled" \in login'.raised
      ]_vars

\* the click on the continue button raised, the operator answered the
\* manual-login question with Enter alone, and _login returned False
C37_Witness ==
    /\ "unhandled" \in login.raised
    /\ login.did = {"email"}
    /\ "manual" \in login.asked
    /\ login.answer = <<>>
    /\ loggedIn = "no"
    /\ exitKind = "auth_failed"

\* ---------------------------------------------------------------- C38

\* C38: when _login returned False, the operator was asked a yes/no question
\* in that call, either the one after the classification or the one of the
\* handler, and the answer was not an affirmative one for that question
\* (Enter alone is affirmative for the first only); there was no manual
\* pause for a missing field or a captcha, and with the login page left on
\* a location of the site no False is returned without an exception
C38_FalseOnlyAfterRefusal ==
    loggedIn = "no" =>
        /\ login.asked \in {{"yesno"}, {"manual"}}
        /\ ~Confirms(login.answer)
        /\ "yesno" \in login.asked => login.answer # <<>>
        /\ login.missing = "none"
        /\ "yesno" \in login.asked =>
             /\ ~login.captcha
             /\ "unhandled" \notin login.raised
             /\ loc.kind = "login" \/ (~login.menu /\ loc = ElsewhereLoc)

\* the page after the submission is still the login page without a captcha,
\* the operator answers n, and _login returns False
C38_Witness ==
    /\ loggedIn = "no"
    /\ login.asked = {"yesno"}
    /\ login.answer = <<"n">>
    /\ login.raised = {"captcha"}
    /\ loc.kind = "login"

\* ---------------------------------------------------------------- C39

\* the runs with two keywords, the largest quota and a ledger left by an
\* earlier run, on the sites with two keywords
InitFair ==
    /\ Init
    /\ config.search_filters.keywords = <<Python, BackendDeveloper>>
    /\ config.max_applications_per_day = MaxQuota
    /\ config.skip_already_applied
    /\ site \in {SiteA, SiteB}
    /\ ledgerFile # AbsentLedger

\* run is one sequential thread: a step that can be taken is taken (every
\* bounded wait expires, every prompt is answered, every page load ends);
\* the sites have finitely many pages of results per keyword
SpecFair == InitFair /\ [][Next]_vars /\ WF_vars(Next)

\* run is over and the session, if one was opened, is closed
Terminated ==
    /\ pc = "done"
    /\ driver = "closed" \/ (driver = "none" /\ quitCount = 0 /\ loginCalls = 0)

\* C39: under fairness every run ends, and it ends with the session closed
\* (without a session when none could be opened), whatever the outcomes of
\* the listings were
C39_RunTerminates == <>Terminated

\* a run over all keywords that ended normally with the session closed,
\* with listings skipped and errored and none applied: the quota was never
\* reached
C39_Witness ==
    /\ Terminated /\ driver = "closed"
    /\ exitKind = "normal"
    /\ kwIdx > Len(keywords)
    /\ nApplied = 0 /\ applications_today = 0 /\ max_applications > 0
    /\ skipped_count > 0 /\ error_count > 0

====
